---- MODULE Spec2Model ----
(***************************************************************************)
(* Link cache store of bridgarr: the RDLink / RDTorrent tables, the        *)
(* LinkCacheManager operations (get_valid_link, refresh_link,              *)
(* refresh_expiring_links, invalidate_expired_links, cleanup_old_links),   *)
(* the link creation of the webhook, the removal of a media item, the play *)
(* endpoints and the episode listing, run by concurrent workers over one   *)
(* database while the clock advances.  Time is counted in minutes.         *)
(***************************************************************************)
EXTENDS Integers, FiniteSets, Sequences, TLC

VARIABLES
    now,            \* datetime.utcnow(), minutes
    ticks,          \* number of clock advances so far (bounded)
    media,          \* ids of the MediaItem rows that exist
    torrents,       \* RDTorrent table: id -> row
    links,          \* RDLink table: id -> row
    nextTorrentId,  \* autoincrement of rd_torrents.id
    nextLinkId,     \* autoincrement of rd_links.id
    issued,         \* number of download URLs the provider has generated
    pc,             \* position of each worker inside its operation
    loc,            \* local variables (session objects, results) of each worker
    hist,           \* result of the single-transaction operation that ran last
    candidates,     \* the list of TorrentResult the selector's caller holds
    selected,       \* what _select_best_torrent returned
    selPc,          \* "ready": the selector is to be called; "done": it returned
    provider,       \* the adapter whose normalize_torrent_status is called
    provider_status,\* its argument
    normalized,     \* its result ("pending" before the call)
    files,          \* the files of the downloaded torrent
    torrent_links,  \* the links of the downloaded torrent (links in the source)
    selected_file,  \* the video file chosen
    fileResult,     \* "pending" before the choice, then its outcome
    media_items,    \* table media_items: id -> row
    rd_torrents,    \* table rd_torrents: id -> row
    rd_links,       \* table rd_links: id -> row
    nextMediaItemId,\* autoincrement of media_items.id
    add_magnet_calls,\* tmdb_id -> number of add_magnet calls made for it
    acq,            \* the webhook acquisitions: position and local variables
    removal,        \* what the last step, a remove_media_item, returned
    checked,        \* what the last step, a status task, looked at
    monitor,        \* the torrents monitor_pending_torrents has still to check
    cl,             \* the poll loop of a client: its position and local variables
    am              \* a call of add_magnet: the adapter, the response, the result

\* the link cache store
storeVars == <<now, ticks, media, torrents, links, nextTorrentId, nextLinkId,
               issued, pc, loc, hist>>
\* the torrent selector
selVars == <<candidates, selected, selPc>>
\* the status normalizers
statusVars == <<provider, provider_status, normalized>>
\* the choice of the file of a downloaded torrent
fileVars == <<files, torrent_links, selected_file, fileResult>>
\* the acquisition, the removal of a media item and the status tasks
lifeVars == <<media_items, rd_torrents, rd_links, nextMediaItemId, add_magnet_calls,
              acq, removal, checked, monitor>>
\* the poll loops of the clients and their add_magnet
clientVars == <<cl, am>>
\* what the operations of the link cache store leave alone
aux == <<selVars, statusVars, fileVars, lifeVars, clientVars>>
\* what the operations of each other part leave alone
notSel == <<storeVars, statusVars, fileVars, lifeVars, clientVars>>
notStatus == <<storeVars, selVars, fileVars, lifeVars, clientVars>>
notFiles == <<storeVars, selVars, statusVars, lifeVars, clientVars>>
notLife == <<storeVars, selVars, statusVars, fileVars, clientVars>>
notClient == <<storeVars, selVars, statusVars, fileVars, lifeVars>>

vars == <<storeVars, aux>>

----------------------------------------------------------------------------
(* Program constants *)

LINK_EXPIRATION_HOURS == 4
REFRESH_THRESHOLD_MINUTES == 30
RD_LINK_EXPIRY_HOURS == 4
DAYS_OLD == 7
\* crontab(minute="*/15"): the period of refresh_all_expiring_links
REFRESH_EVERY_MINUTES == 15
\* crontab(minute=0): the period of cleanup_expired_links
INVALIDATE_EVERY_MINUTES == 60

(* Bounds of the model *)

MaxLinks == 2
MaxTicks == 2
MaxIssued == 4
RaceLinks == 1
MaxCands == 3
MaxFiles == 3
MaxProviderFiles == 2

\* calls of remove_media_item in a behaviour
MaxRemovals == 1

\* runs of the status tasks in a behaviour
MaxChecks == 1

\* the scheduled refresh is followed for this many minutes
Horizon == 500

\* links under the scheduled refresh
ScheduleLinks == 1

\* links are created in the first minutes, at every phase of the schedule
CreateBefore == 16

Workers == {"w1", "w2"}
\* clock advances: one minute (also while an operation is in flight), and
\* the jumps between operations that reach the refresh threshold, the
\* last minute of a link and the cleanup age
BusyStep == {1}
IdleSteps == {210, 239, 10080}

MediaIds == {1, 2}
MediaType == [m \in MediaIds |-> IF m = 1 THEN "movie" ELSE "tv"]
\* episode id -> the media item of its season
EpisodeMedia == [e \in {1} |-> 2]
EpisodeIds == DOMAIN EpisodeMedia
\* episode_id IS NULL
NoEpisode == 0

NoLink == [id |-> 0, rd_torrent_id |-> 0, episode_id |-> 0, streaming_url |-> 0,
           is_valid |-> FALSE, expires_at |-> 0, created_at |-> 0,
           updated_at |-> 0, last_accessed |-> 0, generated_at |-> 0]

\* The locals of a worker: the arguments and the session object (rec) of its
\* operation, the batch still to refresh (todo), the count of successes, the
\* new URL, the value returned (ret); and, recorded for the properties:
\* the link the query found, the remaining lifetime the check computed,
\* whether refresh_link was called (attempted) and committed (refreshed), the
\* number of provider calls, the links a batch refreshed with their URLs
\* (okUrls), whether a refresh failed after another had succeeded, whether
\* the session was rolled back during the operation (rolledBack) and whether
\* a refresh_link of the operation raised to its caller (raised); the objects
\* of a batch as its query loaded them (loaded).
IdleLoc == [op |-> "none", m |-> 0, e |-> 0, rec |-> NoLink, found |-> NoLink,
            checked |-> FALSE, rem |-> 0, new_url |-> 0, todo |-> {}, count |-> 0,
            okUrls |-> {}, lateFail |-> FALSE, attempted |-> FALSE,
            refreshed |-> FALSE, calls |-> 0, ret |-> NoLink,
            rolledBack |-> FALSE, raised |-> FALSE, loaded |-> <<>>]

\* The outcome of the operation that returned in the last step: its name,
\* whether it committed, the count it returned, the batch of a sweep in flush
\* order and the record its flush failed on (0: none), the link a play
\* endpoint served, the has_streaming_url flags of a listing, the locals of
\* the worker that returned (w), and the operation that returned just
\* before it with its count (after, afterCount).
NoHist == [op |-> "none", ok |-> TRUE, count |-> 0, batch |-> <<>>, failAt |-> 0,
           served |-> NoLink, flags |-> <<>>, w |-> IdleLoc,
           after |-> "none", afterCount |-> 0]

\* worker p returns from its operation with the locals L
Return(p, L) ==
    /\ pc' = [pc EXCEPT ![p] = "idle"]
    /\ loc' = [loc EXCEPT ![p] = IdleLoc]
    /\ hist' = [NoHist EXCEPT !.op = L.op, !.count = L.count, !.w = L]

----------------------------------------------------------------------------
(* Pure helpers *)

\* timedelta(hours=LINK_EXPIRATION_HOURS) in minutes
LinkTTL == LINK_EXPIRATION_HOURS * 60

\* timedelta(days=days_old) in minutes
Days(d) == d * 24 * 60

\* the ids of a set in ascending order (the order of a flush)
RECURSIVE SortedIds(_)
SortedIds(S) ==
    IF S = {} THEN <<>>
    ELSE LET m == CHOOSE x \in S : \A y \in S : x <= y
         IN <<m>> \o SortedIds(S \ {m})

StoreInit ==
    /\ now = 0
    /\ ticks = 0
    /\ media = MediaIds
    /\ torrents = <<>>
    /\ links = <<>>
    /\ nextTorrentId = 1
    /\ nextLinkId = 1
    /\ issued = 0
    /\ pc = [p \in Workers |-> "idle"]
    /\ loc = [p \in Workers |-> IdleLoc]
    /\ hist = NoHist

\* seeders is None; quality is None
NoSeeders == -1
NoQuality == "None"

\* a TorrentResult that is None
NoCand == [id |-> 0, size |-> 0, seeders |-> NoSeeders, quality |-> NoQuality]

\* no selection under way
SelectorIdle ==
    /\ candidates = <<>>
    /\ selected = NoCand
    /\ selPc = "idle"

\* no normalization under way
NormalizerIdle ==
    /\ provider = "none"
    /\ provider_status = [kind |-> "str", chars |-> <<>>, code |-> 0]
    /\ normalized = "pending"

\* no downloaded torrent at hand
FilesIdle ==
    /\ files = <<>>
    /\ torrent_links = <<>>
    /\ selected_file = [index |-> -1, path |-> <<>>, size |-> 0, link |-> 0]
    /\ fileResult = "pending"

\* empty tables, no acquisition begun
LifeInit ==
    /\ media_items = <<>>
    /\ rd_torrents = <<>>
    /\ rd_links = <<>>
    /\ nextMediaItemId = 1
    /\ add_magnet_calls = [tm \in {0, 1, 2} |-> 0]
    /\ acq = [a \in {"a1", "a2"} |->
                [pc |-> "idle", tmdb |-> 0, media |-> 0, torrent |-> 0, attempts |-> 0,
                 unrestricts |-> 0, outcome |-> "none", last |-> "none", files |-> <<>>,
                 rd_id |-> FALSE, calls |-> <<>>]]
    /\ removal = [m |-> 0, ret |-> FALSE, deletes |-> 0, had |-> 0, n |-> 0]
    /\ checked = [op |-> "none", t |-> 0, before |-> "none", n |-> 0,
                  resp |-> "none", lks |-> "none"]
    /\ monitor = {}
    /\ cl = [client |-> "none", pc |-> "idle", attempts |-> 0, unrestricts |-> 0,
             ret |-> "pending", why |-> "none", file |-> <<>>, files |-> <<>>,
             rd_id |-> FALSE, calls |-> <<>>]
    /\ am = [adapter |-> "none", resp |-> <<>>, result |-> <<>>]

Init ==
    /\ StoreInit
    /\ SelectorIdle
    /\ NormalizerIdle
    /\ FilesIdle
    /\ LifeInit

----------------------------------------------------------------------------
(* Clock *)

\* Time passes.  While a worker is inside an operation only a minute passes
\* per step (a provider call lasts up to its 30 s timeout); between
\* operations the clock may jump.
Tick(d) ==
    /\ ticks < MaxTicks
    /\ d \in (IF \E p \in Workers : pc[p] # "idle" THEN BusyStep ELSE IdleSteps)
    /\ now' = now + d
    /\ ticks' = ticks + 1
    /\ hist' = NoHist
    /\ UNCHANGED <<aux, media, torrents, links, nextTorrentId, nextLinkId, issued, pc, loc>>

----------------------------------------------------------------------------
(* Link creation: the webhook acquisition stores the torrent, and the link *)
(* once the provider has unrestricted the selected file.                   *)

NewTorrent(m) == [id |-> nextTorrentId, media_item_id |-> m]

NewLink(t, url) ==
    [id |-> nextLinkId, rd_torrent_id |-> t, episode_id |-> NoEpisode,
     streaming_url |-> url, is_valid |-> TRUE,
     expires_at |-> now + RD_LINK_EXPIRY_HOURS * 60,
     created_at |-> now, updated_at |-> now, last_accessed |-> now,
     generated_at |-> now]

\* webhooks.py lines 219-231 and 303-321: the acquisition that ends with a
\* streaming URL stores the torrent and its link
WebhookSaveLink(m) ==
    /\ m \in media
    /\ nextLinkId <= MaxLinks
    /\ torrents' = torrents @@ (nextTorrentId :> NewTorrent(m))
    /\ nextTorrentId' = nextTorrentId + 1
    /\ issued' = issued + 1
    /\ links' = links @@ (nextLinkId :> NewLink(nextTorrentId, issued + 1))
    /\ nextLinkId' = nextLinkId + 1
    /\ hist' = NoHist
    /\ UNCHANGED <<aux, now, ticks, media, pc, loc>>

\* remove_media_item: the media row goes when no torrent refers to it.
\* MediaItem.rd_torrents has no delete cascade: deleting a media item that has
\* torrents sets their media_item_id to NULL, which the column refuses; the
\* call rolls back and returns False
RemoveMedia(m) ==
    /\ m \in media
    /\ media' = IF \E t \in DOMAIN torrents : torrents[t].media_item_id = m
                THEN media
                ELSE media \ {m}
    /\ hist' = [NoHist EXCEPT !.op = "remove_media"]
    /\ UNCHANGED <<aux, now, ticks, torrents, links, nextTorrentId, nextLinkId, issued, pc, loc>>

\* (mutant) the torrent row goes, its links stay
DeleteTorrentOnly(t) == links

\* RDTorrent.rd_links, cascade="all, delete-orphan": the links deleted with
\* torrent t
DeleteTorrentCascade(t) ==
    [l \in {x \in DOMAIN links : links[x].rd_torrent_id # t} |-> links[l]]

\* the deletion of a torrent row through the session
DeleteTorrent(t) ==
    /\ t \in DOMAIN torrents
    /\ torrents' = [x \in DOMAIN torrents \ {t} |-> torrents[x]]
    /\ links' = DeleteTorrentCascade(t)
    /\ hist' = [NoHist EXCEPT !.op = "delete_torrent"]
    /\ UNCHANGED <<aux, now, ticks, media, nextTorrentId, nextLinkId, issued, pc, loc>>

----------------------------------------------------------------------------
(* refresh_link, in three steps separated by its two provider calls *)

\* (mutant) the expiry counted from the creation of the link
RefreshedRowFromCreation(row, url) ==
    [row EXCEPT !.streaming_url = url,
                !.expires_at = row.created_at + LINK_EXPIRATION_HOURS * 60,
                !.is_valid = TRUE,
                !.updated_at = now]

\* lines 135-138: the fields refresh_link writes on the link
RefreshedRow(row, url) ==
    [row EXCEPT !.streaming_url = url,
                !.expires_at = now + LINK_EXPIRATION_HOURS * 60,
                !.is_valid = TRUE,
                !.updated_at = now]

\* lines 140-141: the table after the commit of the refresh of link l
\* (generated_at records when the link was last generated)
CommitRefresh(l, url) ==
    [links EXCEPT ![l] = [RefreshedRow(links[l], url) EXCEPT !.generated_at = now]]

\* (mutant) no rollback: the URL written before the commit raised stays
RollbackRefreshPartial(l, url) ==
    IF l \in DOMAIN links THEN [links EXCEPT ![l].streaming_url = url] ELSE links

\* lines 146-149: the table after the commit raised and the session rolled back
RollbackRefresh(l, url) == links

\* What follows the end of refresh_link in the worker's operation, L being
\* the worker's locals at that point.
\*   ok: the refresh committed; reload: the session was rolled back, so the
\*   object is read again from the table on its next use
\* get_valid_link (line 88) returns `refreshed if refreshed else rd_link`;
\* refresh_expiring_links (lines 205-207) counts the success and goes on to
\* the next link n of its batch.  A rollback expires every object of the
\* session, and so does a commit when the session expires on commit (eoc;
\* the session factory's setting).  When the object of n is expired and its
\* row has been deleted meanwhile, reading rd_link.rd_torrent_id (line 105)
\* raises, and so does the handler's own reading of rd_link.id (line 147):
\* refresh_link raises, refresh_expiring_links catches it and returns 0
\* (lines 212-214) without going on.  When the object is not expired its
\* loaded fields are used.
AfterRefresh(p, L, ok, reload, tbl) ==
    LET obj == IF ok \/ (reload /\ L.rec.id \in DOMAIN tbl)
               THEN tbl[L.rec.id] ELSE L.rec
        rb == L.rolledBack \/ reload
    IN IF L.op = "gvl"
       THEN Return(p, [L EXCEPT !.rec = obj, !.refreshed = ok, !.ret = obj,
                                !.rolledBack = rb])
       ELSE LET cnt == L.count + (IF ok THEN 1 ELSE 0)
                late == L.lateFail \/ (~ok /\ L.count > 0)
                oks == IF ok THEN L.okUrls \cup {<<L.rec.id, L.new_url>>} ELSE L.okUrls
            IN IF L.todo = {}
               THEN Return(p, [L EXCEPT !.rec = obj, !.count = cnt, !.lateFail = late,
                                        !.okUrls = oks, !.refreshed = ok,
                                        !.rolledBack = rb])
               ELSE \E n \in L.todo, eoc \in BOOLEAN :
                    LET expired == rb \/ (cnt > 0 /\ eoc)
                    IN IF n \in DOMAIN tbl \/ ~expired
                       THEN /\ pc' = [pc EXCEPT ![p] = "rf_info"]
                            /\ loc' = [loc EXCEPT ![p] =
                                 [L EXCEPT !.rec = IF n \in DOMAIN tbl THEN tbl[n]
                                                   ELSE L.loaded[n],
                                           !.todo = L.todo \ {n}, !.count = cnt,
                                           !.lateFail = late, !.okUrls = oks,
                                           !.refreshed = ok, !.new_url = 0,
                                           !.rolledBack = rb]]
                            /\ hist' = NoHist
                       ELSE Return(p, [L EXCEPT !.rec = [NoLink EXCEPT !.id = n],
                                                !.todo = L.todo \ {n}, !.count = 0,
                                                !.lateFail = late, !.okUrls = oks,
                                                !.refreshed = ok, !.new_url = 0,
                                                !.rolledBack = rb, !.raised = TRUE])

InfoOutcomes == {"raise", "not_downloaded", "no_links", "ok"}

\* lines 104-123: look the torrent up, ask the provider for its snapshot
RefreshInfo(p, outcome) ==
    /\ pc[p] = "rf_info"
    /\ IF loc[p].rec.rd_torrent_id \notin DOMAIN torrents
       THEN AfterRefresh(p, loc[p], FALSE, FALSE, links)
       ELSE LET L == [loc[p] EXCEPT !.calls = @ + 1]
            IN IF outcome = "ok"
               THEN /\ pc' = [pc EXCEPT ![p] = "rf_unrestrict"]
                    /\ loc' = [loc EXCEPT ![p] = L]
                    /\ hist' = NoHist
               ELSE AfterRefresh(p, L, FALSE, outcome = "raise", links)
    /\ UNCHANGED <<aux, now, ticks, media, torrents, links, nextTorrentId, nextLinkId, issued>>

UnrestrictOutcomes == {"raise", "empty", "ok"}

\* lines 127-132: unrestrict the first link of the snapshot; the provider
\* generates a new download URL on every successful call
RefreshUnrestrict(p, outcome) ==
    /\ pc[p] = "rf_unrestrict"
    /\ LET L == [loc[p] EXCEPT !.calls = @ + 1]
       IN IF outcome = "ok"
          THEN /\ issued < MaxIssued
               /\ issued' = issued + 1
               /\ pc' = [pc EXCEPT ![p] = "rf_commit"]
               /\ loc' = [loc EXCEPT ![p] = [L EXCEPT !.new_url = issued + 1]]
               /\ hist' = NoHist
          ELSE /\ AfterRefresh(p, L, FALSE, outcome = "raise", links)
               /\ UNCHANGED issued
    /\ UNCHANGED <<aux, now, ticks, media, torrents, links, nextTorrentId, nextLinkId>>

\* lines 135-149: write the fields and commit; the commit raises when the
\* database fails (dbOk = FALSE) or when the row is gone
RefreshCommit(p, dbOk) ==
    /\ pc[p] = "rf_commit"
    /\ LET l == loc[p].rec.id
           ok == dbOk /\ l \in DOMAIN links
       IN /\ links' = IF ok THEN CommitRefresh(l, loc[p].new_url)
                      ELSE RollbackRefresh(l, loc[p].new_url)
          /\ AfterRefresh(p, loc[p], ok, ~ok, links')
    /\ UNCHANGED <<aux, now, ticks, media, torrents, nextTorrentId, nextLinkId, issued>>

----------------------------------------------------------------------------
(* get_valid_link *)

\* lines 66-75: the rows the query matches
ValidFor(m, e) ==
    {l \in DOMAIN links :
        /\ links[l].rd_torrent_id \in DOMAIN torrents
        /\ torrents[links[l].rd_torrent_id].media_item_id = m
        /\ links[l].is_valid
        /\ links[l].expires_at > now
        /\ IF e # NoEpisode THEN links[l].episode_id = e
                            ELSE links[l].episode_id = NoEpisode}

\* (mutant) ascending order
Oldest(S) == {l \in S : \A k \in S : links[l].created_at <= links[k].created_at}

\* line 77: order_by(created_at.desc()).first() can give any of these
Newest(S) == {l \in S : \A k \in S : links[l].created_at >= links[k].created_at}

\* (mutant) refresh at the threshold too
NeedsRefreshAtThreshold(rec) == rec.expires_at - now <= REFRESH_THRESHOLD_MINUTES

\* lines 84-85: the link is refreshed before it is returned
NeedsRefresh(rec) == rec.expires_at - now < REFRESH_THRESHOLD_MINUTES

\* lines 65-81
GetValidLinkQuery(p, m, e) ==
    /\ pc[p] = "idle"
    /\ LET S == ValidFor(m, e)
           L == [IdleLoc EXCEPT !.op = "gvl", !.m = m, !.e = e]
       IN IF S = {}
          THEN Return(p, L)
          ELSE \E l \in Newest(S) :
               /\ loc' = [loc EXCEPT ![p] = [L EXCEPT !.rec = links[l],
                                                       !.found = links[l]]]
               /\ pc' = [pc EXCEPT ![p] = "gvl_check"]
               /\ hist' = NoHist
    /\ UNCHANGED <<aux, now, ticks, media, torrents, links, nextTorrentId, nextLinkId, issued>>

\* lines 83-90
GetValidLinkCheck(p) ==
    /\ pc[p] = "gvl_check"
    /\ LET L == [loc[p] EXCEPT !.checked = TRUE, !.rem = loc[p].rec.expires_at - now]
       IN IF NeedsRefresh(loc[p].rec)
          THEN /\ pc' = [pc EXCEPT ![p] = "rf_info"]
               /\ loc' = [loc EXCEPT ![p] = [L EXCEPT !.attempted = TRUE]]
               /\ hist' = NoHist
          ELSE Return(p, [L EXCEPT !.ret = L.rec])
    /\ UNCHANGED <<aux, now, ticks, media, torrents, links, nextTorrentId, nextLinkId, issued>>

----------------------------------------------------------------------------
(* refresh_expiring_links *)

\* (mutant) only the links of the last ten minutes are taken
ExpiringWithinTen ==
    {l \in DOMAIN links :
        /\ links[l].is_valid
        /\ links[l].expires_at <= now + 10
        /\ links[l].expires_at > now}

\* lines 192-202: valid links that expire within the threshold
Expiring ==
    {l \in DOMAIN links :
        /\ links[l].is_valid
        /\ links[l].expires_at <= now + REFRESH_THRESHOLD_MINUTES
        /\ links[l].expires_at > now}

\* lines 190-210: the query, then refresh_link on each link in turn
RefreshExpiringQuery(p) ==
    /\ pc[p] = "idle"
    /\ LET S == Expiring
           L == [IdleLoc EXCEPT !.op = "batch"]
       IN IF S = {}
          THEN Return(p, L)
          ELSE \E l \in S :
               /\ loc' = [loc EXCEPT ![p] = [L EXCEPT !.rec = links[l],
                                                       !.todo = S \ {l},
                                                       !.loaded = [x \in S |-> links[x]]]]
               /\ pc' = [pc EXCEPT ![p] = "rf_info"]
               /\ hist' = NoHist
    /\ UNCHANGED <<aux, now, ticks, media, torrents, links, nextTorrentId, nextLinkId, issued>>

----------------------------------------------------------------------------
(* invalidate_expired_links and cleanup_old_links: one transaction each *)

\* (mutant) the is_valid filter forgotten
ExpiredAnyValidity == {l \in DOMAIN links : links[l].expires_at <= now}

\* (mutant) a link that expires now is not yet expired
ExpiredStrictlyBefore ==
    {l \in DOMAIN links : links[l].is_valid /\ links[l].expires_at < now}

\* lines 159-164: valid links whose expiry has passed
ExpiredValid == {l \in DOMAIN links : links[l].is_valid /\ links[l].expires_at <= now}

\* lines 167-171: every link of the batch flipped (the UPDATE also sets
\* updated_at, the column's onupdate), committed at once
InvalidateCommitted(S) ==
    [l \in DOMAIN links |->
        IF l \in S THEN [links[l] EXCEPT !.is_valid = FALSE, !.updated_at = now]
        ELSE links[l]]

\* (mutant) the records flushed before the failure stay invalidated
InvalidateKeepsEarlier(batch, k) ==
    [l \in DOMAIN links |->
        IF \E i \in 1..(k - 1) : batch[i] = l
        THEN [links[l] EXCEPT !.is_valid = FALSE, !.updated_at = now]
        ELSE links[l]]

\* lines 178-181: the flush failed on the k-th link of the batch; rollback
InvalidateRolledBack(batch, k) == links

\* failAt = 0: the commit succeeds; failAt = k: the flush fails on the k-th
\* record of the batch
InvalidateExpired(failAt) ==
    /\ LET S == ExpiredValid
           batch == SortedIds(S)
       IN /\ failAt \in 0..Len(batch)
          /\ links' = IF failAt = 0 THEN InvalidateCommitted(S)
                      ELSE InvalidateRolledBack(batch, failAt)
          /\ hist' = [NoHist EXCEPT !.op = "invalidate", !.ok = (failAt = 0),
                                    !.count = IF failAt = 0 THEN Len(batch) ELSE 0,
                                    !.batch = batch, !.failAt = failAt,
                                    !.after = IF hist.ok THEN hist.op ELSE "failed",
                                    !.afterCount = hist.count]
    /\ UNCHANGED <<aux, now, ticks, media, torrents, nextTorrentId, nextLinkId, issued, pc, loc>>

\* (mutant) a link created exactly at the cutoff is deleted too
OldInvalidAtCutoff(days) ==
    {l \in DOMAIN links : ~links[l].is_valid /\ links[l].created_at <= now - Days(days)}

\* lines 227-234: invalid links created before the cutoff
OldInvalid(days) ==
    {l \in DOMAIN links : ~links[l].is_valid /\ links[l].created_at < now - Days(days)}

\* lines 237-241: every link of the batch deleted, committed at once
CleanupCommitted(S) == [l \in DOMAIN links \ S |-> links[l]]

\* lines 248-251: the flush failed on the k-th link of the batch; rollback
CleanupRolledBack(batch, k) == links

CleanupOld(days, failAt) ==
    /\ LET S == OldInvalid(days)
           batch == SortedIds(S)
       IN /\ failAt \in 0..Len(batch)
          /\ links' = IF failAt = 0 THEN CleanupCommitted(S)
                      ELSE CleanupRolledBack(batch, failAt)
          /\ hist' = [NoHist EXCEPT !.op = "cleanup", !.ok = (failAt = 0),
                                    !.count = IF failAt = 0 THEN Len(batch) ELSE 0,
                                    !.batch = batch, !.failAt = failAt]
    /\ UNCHANGED <<aux, now, ticks, media, torrents, nextTorrentId, nextLinkId, issued, pc, loc>>

----------------------------------------------------------------------------
(* Readers of the api: the play endpoints and the episode listing *)

\* media.py lines 226-230: the rows the movie endpoint matches
MovieLinks(m) ==
    {l \in DOMAIN links :
        /\ links[l].rd_torrent_id \in DOMAIN torrents
        /\ torrents[links[l].rd_torrent_id].media_item_id = m
        /\ links[l].is_valid
        /\ links[l].expires_at > now}

\* media.py lines 274-278 and 185-189: the rows an episode matches
EpisodeLinks(e) ==
    {l \in DOMAIN links :
        /\ links[l].episode_id = e
        /\ links[l].is_valid
        /\ links[l].expires_at > now}

\* the row after `rd_link.last_accessed = datetime.utcnow()` and the commit
Accessed(row) == [row EXCEPT !.last_accessed = now, !.updated_at = now]

\* serve link l: record the access, answer with the row
Serve(op, S) ==
    IF S = {}
    THEN /\ hist' = [NoHist EXCEPT !.op = op, !.ok = FALSE]
         /\ UNCHANGED links
    ELSE \E l \in S :
         /\ links' = [links EXCEPT ![l] = Accessed(links[l])]
         /\ hist' = [NoHist EXCEPT !.op = op, !.served = Accessed(links[l])]

\* get_movie_streaming_url
PlayMovie(m, hasToken) ==
    /\ m \in media
    /\ IF MediaType[m] # "movie" \/ ~hasToken
       THEN /\ hist' = [NoHist EXCEPT !.op = "play_movie", !.ok = FALSE]
            /\ UNCHANGED links
       ELSE Serve("play_movie", MovieLinks(m))
    /\ UNCHANGED <<aux, now, ticks, media, torrents, nextTorrentId, nextLinkId, issued, pc, loc>>

\* get_episode_streaming_url
PlayEpisode(e, hasToken) ==
    /\ EpisodeMedia[e] \in media
    /\ IF ~hasToken
       THEN /\ hist' = [NoHist EXCEPT !.op = "play_episode", !.ok = FALSE]
            /\ UNCHANGED links
       ELSE Serve("play_episode", EpisodeLinks(e))
    /\ UNCHANGED <<aux, now, ticks, media, torrents, nextTorrentId, nextLinkId, issued, pc, loc>>

\* get_season_episodes: has_streaming_url of each episode of the season
SeasonEpisodes(m) ==
    /\ m \in media
    /\ MediaType[m] = "tv"
    /\ hist' = [NoHist EXCEPT !.op = "episodes",
                  !.flags = [e \in {x \in EpisodeIds : EpisodeMedia[x] = m} |->
                                EpisodeLinks(e) # {}]]
    /\ UNCHANGED <<aux, now, ticks, media, torrents, links, nextTorrentId, nextLinkId,
                   issued, pc, loc>>

----------------------------------------------------------------------------
(* _select_best_torrent.  Sizes are counted in KiB. *)

MB == 1024
GB == 1024 * 1024

MIN_SIZE == 700 * 1024
MAX_SIZE == 15 * 1024 * 1024

\* the search results the scrapers may give: sizes below, at, inside, and
\* above the bounds; known, unknown and missing quality labels; seeder
\* counts missing, zero and positive; candidates with equal scores
TorrentPool ==
    { [id |-> 1, size |-> 500 * MB,     quality |-> "720p",    seeders |-> 5],
      [id |-> 2, size |-> 2 * GB,       quality |-> "1080p",   seeders |-> 1],
      [id |-> 3, size |-> 20 * GB,      quality |-> "480p",    seeders |-> 50],
      [id |-> 4, size |-> MIN_SIZE,     quality |-> "1080p",   seeders |-> NoSeeders],
      [id |-> 5, size |-> MAX_SIZE,     quality |-> "2160p",   seeders |-> 0],
      [id |-> 6, size |-> MAX_SIZE + 1, quality |-> "2160p",   seeders |-> 50],
      [id |-> 7, size |-> MIN_SIZE - 1, quality |-> "1080P",   seeders |-> NoSeeders],
      [id |-> 8, size |-> 3 * GB,       quality |-> NoQuality, seeders |-> 5],
      [id |-> 9, size |-> 3 * GB,       quality |-> "1080p",   seeders |-> 1],
      [id |-> 10, size |-> 16 * GB,     quality |-> "720p",    seeders |-> 5] }

CandidateLists == UNION {[1..n -> TorrentPool] : n \in 0..MaxCands}

\* (mutant) the bounds excluded
InRangeExclusive(t) == MIN_SIZE < t.size /\ t.size < MAX_SIZE

\* line 162
InRange(t) == MIN_SIZE <= t.size /\ t.size <= MAX_SIZE

\* (mutant) no fall-back to the unfiltered list
ConsideredNoFallback(ts) == SelectSeq(ts, InRange)

\* lines 160-167: the in-range candidates, or all of them when none is
Considered(ts) ==
    IF SelectSeq(ts, InRange) = <<>> THEN ts ELSE SelectSeq(ts, InRange)

\* lines 171-176
quality_scores == [q \in {"2160p", "1080p", "720p", "480p"} |->
                      CASE q = "2160p" -> 4
                        [] q = "1080p" -> 3
                        [] q = "720p" -> 2
                        [] q = "480p" -> 1]

\* (mutant) seeders before quality
quality_score_seeders_first(t) ==
    << IF t.seeders = NoSeeders \/ t.seeders = 0 THEN 0 ELSE t.seeders,
       IF t.quality \in DOMAIN quality_scores THEN quality_scores[t.quality] ELSE 0 >>

\* lines 170-179: (q_score, seeder_score)
quality_score(t) ==
    << IF t.quality \in DOMAIN quality_scores THEN quality_scores[t.quality] ELSE 0,
       IF t.seeders = NoSeeders \/ t.seeders = 0 THEN 0 ELSE t.seeders >>

\* the order of Python tuples
TupleLess(a, b) == a[1] < b[1] \/ (a[1] = b[1] /\ a[2] < b[2])

\* (mutant) x is put in front of the elements with the same score
InsertDescFront(x, s) ==
    LET before == {i \in 1..Len(s) : TupleLess(quality_score(x), quality_score(s[i]))}
        k == Cardinality(before)
    IN SubSeq(s, 1, k) \o <<x>> \o SubSeq(s, k + 1, Len(s))

\* x put into the list s, sorted in descending order of the score, behind
\* the elements with the same score
InsertDesc(x, s) ==
    LET before == {i \in 1..Len(s) : ~TupleLess(quality_score(s[i]), quality_score(x))}
        k == Cardinality(before)
    IN SubSeq(s, 1, k) \o <<x>> \o SubSeq(s, k + 1, Len(s))

\* line 181: list.sort(key=quality_score, reverse=True); the sort is stable
RECURSIVE SortDesc(_)
SortDesc(ts) ==
    IF ts = <<>> THEN <<>>
    ELSE InsertDesc(ts[Len(ts)], SortDesc(SubSeq(ts, 1, Len(ts) - 1)))

\* the caller's list after the call: `filtered = torrents` (line 167) makes
\* the sort of line 181 sort the caller's own list
CallerList(ts) ==
    IF SelectSeq(ts, InRange) = <<>> THEN SortDesc(ts) ELSE ts

\* lines 153-183
SelectBestTorrent ==
    /\ selPc = "ready"
    /\ IF candidates = <<>>
       THEN /\ selected' = NoCand
            /\ candidates' = candidates
       ELSE LET filtered == SortDesc(Considered(candidates))
            IN /\ selected' = IF filtered # <<>> THEN filtered[1] ELSE NoCand
               /\ candidates' = CallerList(candidates)
    /\ selPc' = "done"
    /\ UNCHANGED notSel

----------------------------------------------------------------------------
(* normalize_torrent_status of the three adapters.  A string is the        *)
(* sequence of its characters.                                             *)

LowerLetters == <<"a", "b", "c", "d", "e", "f", "g", "h", "i", "j", "k", "l", "m", "n", "o", "p", "q", "r", "s", "t", "u", "v", "w", "x", "y", "z">>
UpperLetters == <<"A", "B", "C", "D", "E", "F", "G", "H", "I", "J", "K", "L", "M", "N", "O", "P", "Q", "R", "S", "T", "U", "V", "W", "X", "Y", "Z">>

\* str.lower() on one character
LowerChar(c) ==
    IF \E i \in 1..26 : UpperLetters[i] = c
    THEN LowerLetters[CHOOSE i \in 1..26 : UpperLetters[i] = c]
    ELSE c

\* str.upper() on one character
UpperChar(c) ==
    IF \E i \in 1..26 : LowerLetters[i] = c
    THEN UpperLetters[CHOOSE i \in 1..26 : LowerLetters[i] = c]
    ELSE c

\* str.lower()
Lower(w) == [i \in 1..Len(w) |-> LowerChar(w[i])]

\* str.upper(), str.capitalize()
Upper(w) == [i \in 1..Len(w) |-> UpperChar(w[i])]
Capitalize(w) == [i \in 1..Len(w) |-> IF i = 1 THEN UpperChar(w[i]) ELSE LowerChar(w[i])]

\* class TorrentStatus
TorrentStatus ==
    [QUEUED |-> "queued", DOWNLOADING |-> "downloading", PROCESSING |-> "processing",
     READY |-> "ready", ERROR |-> "error", EXPIRED |-> "expired", DEAD |-> "dead"]

Providers == {"alldebrid", "premiumize", "debrid_link"}

\* the status strings of the three vocabularies, and strings of none
StatusWords ==
    { <<"q", "u", "e", "u", "e", "d">>,
      <<"p", "r", "o", "c", "e", "s", "s", "i", "n", "g">>,
      <<"c", "o", "m", "p", "r", "e", "s", "s", "i", "n", "g">>,
      <<"u", "p", "l", "o", "a", "d", "i", "n", "g">>,
      <<"r", "e", "a", "d", "y">>,
      <<"e", "r", "r", "o", "r">>,
      <<"e", "x", "p", "i", "r", "e", "d">>,
      <<"w", "a", "i", "t", "i", "n", "g">>,
      <<"r", "u", "n", "n", "i", "n", "g">>,
      <<"f", "i", "n", "i", "s", "h", "i", "n", "g">>,
      <<"f", "i", "n", "i", "s", "h", "e", "d">>,
      <<"b", "a", "n", "n", "e", "d">>,
      <<"t", "i", "m", "e", "o", "u", "t">>,
      <<"s", "e", "e", "d", "i", "n", "g">>,
      <<"d", "o", "w", "n", "l", "o", "a", "d", "i", "n", "g">>,
      <<"d", "o", "w", "n", "l", "o", "a", "d", "e", "d">>,
      <<"v", "i", "r", "u", "s">> }
UnknownWords ==
    { <<"d", "e", "a", "d">>,
      <<"m", "a", "g", "n", "e", "t", "_", "e", "r", "r", "o", "r">>,
      <<"4">>,
      <<"r", "e", "a", "d", "y", " ">> }

\* the numeric codes: those of the vocabularies, and codes of none
StatusCodes == -1..7

\* a status as the provider's JSON gives it: a string or an integer
StrStatus(w) == [kind |-> "str", chars |-> w, code |-> 0]
IntStatus(n) == [kind |-> "int", chars |-> <<>>, code |-> n]

StatusInputs ==
    {StrStatus(w) : w \in StatusWords \cup UnknownWords \cup {<<>>}}
    \cup {StrStatus(Upper(w)) : w \in StatusWords \cup UnknownWords}
    \cup {StrStatus(Capitalize(w)) : w \in StatusWords \cup UnknownWords}
    \cup {IntStatus(n) : n \in StatusCodes}

\* (mutant) the default of the lookup is READY
GetOrReady(map, key) == IF key \in DOMAIN map THEN map[key] ELSE TorrentStatus.READY

\* dict.get(key, TorrentStatus.ERROR)
GetOrError(map, key) == IF key \in DOMAIN map THEN map[key] ELSE TorrentStatus.ERROR

\* alldebrid.py lines 333-341
AllDebridCodeMap ==
    0 :> TorrentStatus.QUEUED
    @@ 1 :> TorrentStatus.DOWNLOADING
    @@ 2 :> TorrentStatus.PROCESSING
    @@ 3 :> TorrentStatus.PROCESSING
    @@ 4 :> TorrentStatus.READY
    @@ 5 :> TorrentStatus.ERROR
    @@ 6 :> TorrentStatus.EXPIRED

\* alldebrid.py lines 345-353
AllDebridStatusMap ==
    <<"q", "u", "e", "u", "e", "d">> :> TorrentStatus.QUEUED   \* "queued"
    @@ <<"p", "r", "o", "c", "e", "s", "s", "i", "n", "g">> :> TorrentStatus.DOWNLOADING   \* "processing"
    @@ <<"c", "o", "m", "p", "r", "e", "s", "s", "i", "n", "g">> :> TorrentStatus.PROCESSING   \* "compressing"
    @@ <<"u", "p", "l", "o", "a", "d", "i", "n", "g">> :> TorrentStatus.PROCESSING   \* "uploading"
    @@ <<"r", "e", "a", "d", "y">> :> TorrentStatus.READY   \* "ready"
    @@ <<"e", "r", "r", "o", "r">> :> TorrentStatus.ERROR   \* "error"
    @@ <<"e", "x", "p", "i", "r", "e", "d">> :> TorrentStatus.EXPIRED   \* "expired"

\* alldebrid.py lines 332-354
AllDebridNormalize(x) ==
    IF x.kind = "int"
    THEN GetOrError(AllDebridCodeMap, x.code)
    ELSE GetOrError(AllDebridStatusMap, Lower(x.chars))

\* premiumize.py lines 370-380
PremiumizeStatusMap ==
    <<"w", "a", "i", "t", "i", "n", "g">> :> TorrentStatus.QUEUED   \* "waiting"
    @@ <<"q", "u", "e", "u", "e", "d">> :> TorrentStatus.QUEUED   \* "queued"
    @@ <<"r", "u", "n", "n", "i", "n", "g">> :> TorrentStatus.DOWNLOADING   \* "running"
    @@ <<"f", "i", "n", "i", "s", "h", "i", "n", "g">> :> TorrentStatus.PROCESSING   \* "finishing"
    @@ <<"f", "i", "n", "i", "s", "h", "e", "d">> :> TorrentStatus.READY   \* "finished"
    @@ <<"e", "r", "r", "o", "r">> :> TorrentStatus.ERROR   \* "error"
    @@ <<"b", "a", "n", "n", "e", "d">> :> TorrentStatus.ERROR   \* "banned"
    @@ <<"t", "i", "m", "e", "o", "u", "t">> :> TorrentStatus.ERROR   \* "timeout"
    @@ <<"s", "e", "e", "d", "i", "n", "g">> :> TorrentStatus.READY   \* "seeding"

\* premiumize.py lines 370-381: an integer has no lower(), the call raises
PremiumizeNormalize(x) ==
    IF x.kind = "int"
    THEN "AttributeError"
    ELSE GetOrError(PremiumizeStatusMap, Lower(x.chars))

\* debrid_link.py lines 334-340
DebridLinkCodeMap ==
    0 :> TorrentStatus.QUEUED
    @@ 1 :> TorrentStatus.DOWNLOADING
    @@ 2 :> TorrentStatus.READY
    @@ 3 :> TorrentStatus.ERROR
    @@ 4 :> TorrentStatus.ERROR

\* debrid_link.py lines 344-350
DebridLinkStatusMap ==
    <<"w", "a", "i", "t", "i", "n", "g">> :> TorrentStatus.QUEUED   \* "waiting"
    @@ <<"d", "o", "w", "n", "l", "o", "a", "d", "i", "n", "g">> :> TorrentStatus.DOWNLOADING   \* "downloading"
    @@ <<"d", "o", "w", "n", "l", "o", "a", "d", "e", "d">> :> TorrentStatus.READY   \* "downloaded"
    @@ <<"e", "r", "r", "o", "r">> :> TorrentStatus.ERROR   \* "error"
    @@ <<"v", "i", "r", "u", "s">> :> TorrentStatus.ERROR   \* "virus"

\* debrid_link.py lines 333-351
DebridLinkNormalize(x) ==
    IF x.kind = "int"
    THEN GetOrError(DebridLinkCodeMap, x.code)
    ELSE GetOrError(DebridLinkStatusMap, Lower(x.chars))

\* the adapter of the provider normalizes the status
NormalizeTorrentStatus(pr) ==
    /\ provider = pr
    /\ normalized = "pending"
    /\ normalized' = CASE pr = "alldebrid" -> AllDebridNormalize(provider_status)
                        [] pr = "premiumize" -> PremiumizeNormalize(provider_status)
                        [] pr = "debrid_link" -> DebridLinkNormalize(provider_status)
    /\ UNCHANGED <<provider, provider_status>>
    /\ UNCHANGED notStatus

----------------------------------------------------------------------------
(* The choice of the file of a downloaded torrent in the webhook.  A path  *)
(* is the sequence of its characters, a size is in KiB, a link is the      *)
(* position it has in the provider's list.                                 *)

video_extensions ==
    {<<".", "m", "p", "4">>, <<".", "m", "k", "v">>, <<".", "a", "v", "i">>, <<".", "m", "o", "v">>, <<".", "w", "e", "b", "m">>, <<".", "f", "l", "v">>, <<".", "m", "4", "v">>, <<".", "w", "m", "v">>}
archive_extensions ==
    {<<".", "r", "a", "r">>, <<".", "z", "i", "p">>, <<".", "7", "z">>, <<".", "t", "a", "r">>, <<".", "g", "z">>}

\* file_path.rfind('.'), counted from 1; 0 when the path has no dot
RFindDot(file_path) ==
    IF \E i \in 1..Len(file_path) : file_path[i] = "."
    THEN CHOOSE i \in 1..Len(file_path) :
            /\ file_path[i] = "."
            /\ \A j \in (i + 1)..Len(file_path) : file_path[j] # "."
    ELSE 0

\* file_path[file_path.rfind('.'):].lower() if '.' in file_path else ''
FileExt(file_path) ==
    IF RFindDot(file_path) = 0 THEN <<>>
    ELSE Lower(SubSeq(file_path, RFindDot(file_path), Len(file_path)))

NoLinkUrl == 0

\* the entry appended for the file at position i (i - 1 in the source)
VideoEntry(fs, ls, i) ==
    [index |-> i - 1, path |-> fs[i].path, size |-> fs[i].bytes,
     link |-> IF i - 1 < Len(ls) THEN ls[i] ELSE NoLinkUrl]

\* the loop over the files: archives are skipped, video files are appended
RECURSIVE VideoFilesFrom(_, _, _)
VideoFilesFrom(fs, ls, i) ==
    IF i > Len(fs) THEN <<>>
    ELSE IF FileExt(fs[i].path) \in archive_extensions THEN VideoFilesFrom(fs, ls, i + 1)
    ELSE IF FileExt(fs[i].path) \in video_extensions
         THEN <<VideoEntry(fs, ls, i)>> \o VideoFilesFrom(fs, ls, i + 1)
         ELSE VideoFilesFrom(fs, ls, i + 1)

VideoFiles(fs, ls) == VideoFilesFrom(fs, ls, 1)

\* (mutant) the first video file is taken
FirstVideoFile(vs) == vs[1]

\* max(video_files, key=lambda x: x['size']): the first of the largest
MaxBySize(vs) ==
    vs[CHOOSE i \in 1..Len(vs) :
          /\ \A j \in 1..Len(vs) : vs[j].size <= vs[i].size
          /\ \A j \in 1..(i - 1) : vs[j].size < vs[i].size]

NoFile == [index |-> -1, path |-> <<>>, size |-> 0, link |-> NoLinkUrl]

\* the files a torrent may hold
FilePool ==
    { [path |-> <<"m", "o", "v", "i", "e", ".", "m", "k", "v">>, bytes |-> 4 * GB],   \* movie.mkv
      [path |-> <<"s", "a", "m", "p", "l", "e", ".", "m", "k", "v">>, bytes |-> 50 * MB],   \* sample.mkv
      [path |-> <<"r", "e", "a", "d", "m", "e", ".", "r", "a", "r">>, bytes |-> 1],   \* readme.rar
      [path |-> <<"M", "O", "V", "I", "E", ".", "M", "K", "V">>, bytes |-> 4 * GB],   \* MOVIE.MKV
      [path |-> <<"e", "x", "t", "r", "a", "s", ".", "r", "a", "r">>, bytes |-> 8 * GB],   \* extras.rar
      [path |-> <<"n", "o", "t", "e", "s", ".", "t", "x", "t">>, bytes |-> 5 * GB],   \* notes.txt
      [path |-> <<"c", "l", "i", "p", ".", "m", "p", "4">>, bytes |-> 700 * MB],   \* clip.mp4
      [path |-> <<"m", "o", "v", "i", "e", ".", "m", "k", "v", ".", "z", "i", "p">>, bytes |-> 6 * GB],   \* movie.mkv.zip
      [path |-> <<"v", "1", ".", "0", "/", "n", "o", "e", "x", "t">>, bytes |-> 7 * GB] }  \* v1.0/noext

FileLists == UNION {[1..n -> FilePool] : n \in 0..MaxFiles}

\* the links the provider lists: one per file, or fewer
LinkLists(fs) == {[i \in 1..n |-> i] : n \in 0..Len(fs)}

\* the torrent is "downloaded": the branch of the poll loop that picks the file
ProcessDownloaded ==
    /\ fileResult = "pending"
    /\ IF torrent_links # <<>> /\ files # <<>>
       THEN LET video_files == VideoFiles(files, torrent_links) IN
            IF video_files = <<>>
            THEN /\ fileResult' = "no_video_files"
                 /\ selected_file' = NoFile
            ELSE /\ fileResult' = "selected"
                 /\ selected_file' = MaxBySize(video_files)
       ELSE /\ fileResult' = "no_files_or_links"
            /\ selected_file' = NoFile
    /\ UNCHANGED <<files, torrent_links>>
    /\ UNCHANGED notFiles

----------------------------------------------------------------------------
(* The acquisition of the webhook (process_overseerr_request), the removal *)
(* of a media item and the torrent status tasks, over the tables           *)
(* media_items, rd_torrents and rd_links.  The provider answers every call *)
(* with whatever it likes.                                                  *)

Acqs == {"a1", "a2"}
TmdbIds == {1}

\* for attempt in range(15)
POLL_ATTEMPTS == 15

\* the statuses Real-Debrid reports for a torrent
RDStatuses ==
    {"queued", "downloading", "uploading", "magnet_error",
     "downloaded", "error", "virus", "dead"}

\* (mutant) a dead torrent is not taken as failed
FailedWithoutDead == {"error", "virus"}

\* if status == "downloaded" / elif status in ["error", "virus", "dead"]
FailedStatuses == {"error", "virus", "dead"}
\* RDTorrent.status.in_(["pending", "downloading", "queued"])
PendingStatuses == {"pending", "downloading", "queued"}

NoMsg == "none"

NoAcq ==
    [pc |-> "idle", tmdb |-> 0, media |-> 0, torrent |-> 0, attempts |-> 0,
     unrestricts |-> 0, outcome |-> "none", last |-> "none", files |-> <<>>,
     rd_id |-> FALSE, calls |-> <<>>]

NoRemoval == [m |-> 0, ret |-> FALSE, deletes |-> 0, had |-> 0, n |-> 0]

NoCheck == [op |-> "none", t |-> 0, before |-> "none", n |-> 0,
            resp |-> "none", lks |-> "none"]

\* the file lists a downloaded torrent may report; Real-Debrid numbers the
\* files of a torrent from 1
PollFileLists ==
    { <<>>,
      << [id |-> 1, path |-> <<"r", "e", "a", "d", "m", "e", ".", "r", "a", "r">>, bytes |-> 1] >>,
      << [id |-> 1, path |-> <<"n", "o", "t", "e", "s", ".", "t", "x", "t">>, bytes |-> 5 * GB],
         [id |-> 2, path |-> <<"e", "x", "t", "r", "a", "s", ".", "r", "a", "r">>, bytes |-> 8 * GB] >>,
      << [id |-> 1, path |-> <<"r", "e", "a", "d", "m", "e", ".", "r", "a", "r">>, bytes |-> 1],
         [id |-> 2, path |-> <<"m", "o", "v", "i", "e", ".", "m", "k", "v">>, bytes |-> 4 * GB] >>,
      << [id |-> 1, path |-> <<"m", "o", "v", "i", "e", ".", "m", "k", "v">>, bytes |-> 4 * GB],
         [id |-> 2, path |-> <<"s", "a", "m", "p", "l", "e", ".", "m", "k", "v">>, bytes |-> 50 * MB] >> }

\* what get_torrent_info gives the poll loop: an exception, or a snapshot
PollResponses ==
    {[raise |-> TRUE, status |-> "none", files |-> <<>>, links |-> <<>>]}
    \cup {[raise |-> FALSE, status |-> s, files |-> <<>>, links |-> <<>>] :
             s \in RDStatuses \ {"downloaded"}}
    \cup UNION {{[raise |-> FALSE, status |-> "downloaded", files |-> fs, links |-> ls] :
                    ls \in LinkLists(fs)} : fs \in PollFileLists}

UnrestrictResults == {"raise", "empty", "url"}

\* the MediaItem rows with this tmdb_id
MediaWithTmdb(tm) == {m \in DOMAIN media_items : media_items[m].tmdb_id = tm}

\* the RDTorrent rows of a media item
TorrentsOf(m) == {t \in DOMAIN rd_torrents : rd_torrents[t].media_item_id = m}

\* the RDLink rows of a torrent
LinksOfTorrent(t) == {l \in DOMAIN rd_links : rd_links[l].rd_torrent_id = t}

\* the acquisition ends; what it did stays in its record
AcqDone(a, out) == acq' = [acq EXCEPT ![a].pc = "done", ![a].outcome = out]

\* new_media.error_message = msg; db.commit()
SetMediaError(m, msg) == [media_items EXCEPT ![m].error_message = msg]

\* the commit of a change of new_media: the UPDATE finds no row when the
\* media item was removed meanwhile, the exception reaches the outermost
\* handler (lines 366-369), which rolls back
MediaGone(a) == acq[a].media \notin DOMAIN media_items

\* lines 85-96: the notification types that are processed, the tmdbId
WebhookStart(a, approved, tm) ==
    /\ acq[a].pc = "idle"
    /\ IF approved /\ tm # 0
       THEN acq' = [acq EXCEPT ![a].pc = "check", ![a].tmdb = tm]
       ELSE acq' = [acq EXCEPT ![a].pc = "done", ![a].tmdb = tm, ![a].outcome = "skipped"]
    /\ UNCHANGED <<removal, checked>>
    /\ UNCHANGED <<media_items, rd_torrents, rd_links, nextMediaItemId, add_magnet_calls,
                   monitor>>
    /\ UNCHANGED notLife

\* lines 103-109: the media item exists already, nothing is done
WebhookCheckExisting(a) ==
    /\ acq[a].pc = "check"
    /\ IF MediaWithTmdb(acq[a].tmdb) # {}
       THEN AcqDone(a, "exists")
       ELSE acq' = [acq EXCEPT ![a].pc = "insert"]
    /\ UNCHANGED <<removal, checked>>
    /\ UNCHANGED <<media_items, rd_torrents, rd_links, nextMediaItemId, add_magnet_calls,
                   monitor>>
    /\ UNCHANGED notLife

\* media_items.tmdb_id is unique: the INSERT of a second row fails
InsertAllowed(tm) == MediaWithTmdb(tm) = {}

\* lines 111-121: the placeholder media item is inserted and committed
WebhookInsertMedia(a) ==
    /\ acq[a].pc = "insert"
    /\ IF InsertAllowed(acq[a].tmdb)
       THEN /\ media_items' = media_items @@
                 (nextMediaItemId :> [tmdb_id |-> acq[a].tmdb, is_available |-> FALSE,
                                      error_message |-> NoMsg])
            /\ nextMediaItemId' = nextMediaItemId + 1
            /\ acq' = [acq EXCEPT ![a].pc = "metadata", ![a].media = nextMediaItemId]
       ELSE /\ AcqDone(a, "rejected")
            /\ UNCHANGED <<media_items, nextMediaItemId>>
    /\ UNCHANGED <<removal, checked>>
    /\ UNCHANGED <<rd_torrents, rd_links, add_magnet_calls, monitor>>
    /\ UNCHANGED notLife

\* lines 128-166: TMDb answered; the metadata is committed, the token of
\* the first user that has one is looked up
WebhookMetadata(a, metadata, rd_token) ==
    /\ acq[a].pc = "metadata"
    /\ IF MediaGone(a)
       THEN /\ AcqDone(a, "error")
            /\ UNCHANGED media_items
       ELSE IF ~metadata
       THEN /\ media_items' = SetMediaError(acq[a].media, "no_metadata")
            /\ AcqDone(a, "no_metadata")
       ELSE IF ~rd_token
       THEN /\ media_items' = SetMediaError(acq[a].media, "no_token")
            /\ AcqDone(a, "no_token")
       ELSE /\ acq' = [acq EXCEPT ![a].pc = "process"]
            /\ UNCHANGED media_items
    /\ UNCHANGED <<removal, checked>>
    /\ UNCHANGED <<rd_torrents, rd_links, nextMediaItemId, add_magnet_calls, monitor>>
    /\ UNCHANGED notLife

\* what process_movie did: it found no torrent, it raised, its add_magnet
\* failed, the torrent had no files, or it succeeded
ProcessResults == {"no_torrents", "raise", "add_failed", "no_files", "success"}

\* a call of the provider and what it gave
Call(c, r) == [call |-> c, result |-> r]

\* (mutant) the id add_magnet returned is not looked at
ProcessCallsNoIdCheck(result) ==
    IF result = "add_failed"
    THEN <<Call("add_magnet", "none"), Call("get_torrent_info", "other")>>
    ELSE <<Call("add_magnet", "id"), Call("get_torrent_info", "other")>>

\* _add_to_real_debrid: the provider calls made, in their order; add_magnet
\* is called once a torrent was selected, get_torrent_info once add_magnet
\* returned an id, select_files once the torrent listed files
ProcessCalls(result) ==
    CASE result = "add_failed" -> <<Call("add_magnet", "none")>>
      [] result = "no_files" ->
           <<Call("add_magnet", "id"), Call("get_torrent_info", "other")>>
      [] result = "success" ->
           <<Call("add_magnet", "id"), Call("get_torrent_info", "other"),
             Call("select_files", "ok"), Call("get_torrent_info", "other")>>
      [] OTHER -> <<>>

\* magnet_result.get("id") was not empty
IdReturned(result) == result \in {"no_files", "success"}

\* add_magnet was called
Submits(result) == result \in {"add_failed", "no_files", "success"}

\* lines 171-231: process_movie returned; on success the RDTorrent is saved
\* with the status Real-Debrid reported after the selection of the files
WebhookProcess(a, result, status) ==
    /\ acq[a].pc = "process"
    /\ add_magnet_calls' =
          IF Submits(result)
          THEN [add_magnet_calls EXCEPT ![acq[a].tmdb] = @ + 1]
          ELSE add_magnet_calls
    /\ LET made == [acq[a] EXCEPT !.calls = ProcessCalls(result),
                                    !.rd_id = IdReturned(result)]
       IN
       IF MediaGone(a)
       THEN /\ acq' = [acq EXCEPT ![a] = [made EXCEPT !.pc = "done", !.outcome = "error"]]
            /\ UNCHANGED <<media_items, rd_torrents>>
       ELSE IF result = "success"
       THEN LET t == Cardinality(DOMAIN rd_torrents) + 1 IN
            /\ rd_torrents' = rd_torrents @@
                 (t :> [media_item_id |-> acq[a].media, status |-> status,
                        error_message |-> NoMsg])
            /\ acq' = [acq EXCEPT ![a] = [made EXCEPT !.pc = "poll", !.torrent = t]]
            /\ UNCHANGED media_items
       ELSE /\ media_items' = SetMediaError(acq[a].media,
                                 IF result = "raise" THEN "unexpected" ELSE "process_failed")
            /\ acq' = [acq EXCEPT ![a] = [made EXCEPT !.pc = "done",
                                                      !.outcome = "process_failed"]]
            /\ UNCHANGED rd_torrents
    /\ UNCHANGED <<removal, checked>>
    /\ UNCHANGED <<rd_links, nextMediaItemId, monitor>>
    /\ UNCHANGED notLife

\* rd_file_id IS NULL
NoFileId == 0

\* lines 306-315: the RDLink of the webhook; rd_file_id is the id of the first
\* file of the snapshot, the URL is what unrestricting selected_file['link']
\* gave (link: the provider link the record was created from; url_of: the
\* provider link its present streaming_url was generated from)
WebhookRow(t, fs, sel) ==
    [rd_torrent_id |-> t, file |-> sel.path, rd_file_id |-> fs[1].id,
     link |-> sel.link, url_of |-> sel.link, by |-> "webhook"]

\* (mutant) nothing is recorded after the loop
AfterLoopSilent(tbl, m) == tbl

\* lines 348-353: after the loop, whatever ended it
AfterLoop(tbl, m) ==
    IF tbl[m].is_available THEN tbl
    ELSE [tbl EXCEPT ![m].error_message = "still_downloading"]

\* lines 241-360: one pass of the poll loop, and what follows the loop when
\* this pass ends it
WebhookPoll(a, resp, unrestrict) ==
    /\ acq[a].pc = "poll"
    /\ acq[a].attempts < POLL_ATTEMPTS
    /\ LET m == acq[a].media
           t == acq[a].torrent
           n == acq[a].attempts + 1
           video_files == VideoFiles(resp.files, resp.links)
           \* what the pass that ends the loop was given
           last == IF resp.raise THEN "raise" ELSE resp.status
           \* rd_client.get_torrent_info (line 242), rd_client.unrestrict_link
           \* (line 293)
           info == Call("get_torrent_info",
                        IF resp.raise THEN "raise"
                        ELSE IF resp.status = "downloaded" THEN "downloaded" ELSE "other")
           Made(u) == IF u = 0 THEN <<info>>
                      ELSE <<info, Call("unrestrict_link", unrestrict)>>
           \* except Exception as rd_error (lines 355-359)
           RdError(u) ==
               /\ media_items' = SetMediaError(m, "rd_error")
               /\ acq' = [acq EXCEPT ![a].pc = "done", ![a].attempts = n, ![a].last = last,
                                     ![a].files = resp.files,
                                     ![a].unrestricts = @ + u, ![a].outcome = "rd_error",
                                     ![a].calls = Made(u)]
               /\ UNCHANGED <<rd_torrents, rd_links>>
           \* break: an error message was committed, the lines after the loop run
           Break(msg, out, u) ==
               /\ media_items' = AfterLoop(SetMediaError(m, msg), m)
               /\ acq' = [acq EXCEPT ![a].pc = "done", ![a].attempts = n, ![a].last = last,
                                     ![a].files = resp.files,
                                     ![a].unrestricts = @ + u, ![a].outcome = out,
                                     ![a].calls = Made(u)]
               /\ UNCHANGED <<rd_torrents, rd_links>>
       IN IF resp.raise THEN RdError(0)
          ELSE IF resp.status = "downloaded"
          THEN IF resp.links # <<>> /\ resp.files # <<>>
               THEN IF video_files = <<>>
                    THEN Break("no_video_files", "no_video_files", 0)
                    ELSE CASE unrestrict = "raise" -> RdError(1)
                           [] unrestrict = "empty" ->
                                Break("no_streaming_url", "no_streaming_url", 1)
                           [] unrestrict = "url" ->
                                /\ rd_links' = rd_links @@
                                     ((Cardinality(DOMAIN rd_links) + 1) :>
                                        WebhookRow(t, resp.files, MaxBySize(video_files)))
                                /\ media_items' = [media_items EXCEPT ![m].is_available = TRUE]
                                /\ acq' = [acq EXCEPT ![a].pc = "done", ![a].attempts = n, ![a].last = last,
                                     ![a].files = resp.files,
                                                      ![a].unrestricts = @ + 1,
                                                      ![a].outcome = "link_saved",
                                                      ![a].calls = Made(1)]
                                /\ UNCHANGED rd_torrents
               ELSE Break("no_files_or_links", "no_files_or_links", 0)
          ELSE IF resp.status \in FailedStatuses
          THEN /\ rd_torrents' = [rd_torrents EXCEPT ![t].status = resp.status,
                                                     ![t].error_message = resp.status]
               /\ media_items' = AfterLoop(media_items, m)
               /\ acq' = [acq EXCEPT ![a].pc = "done", ![a].attempts = n, ![a].last = last,
                                     ![a].files = resp.files,
                                     ![a].outcome = "failed", ![a].calls = Made(0)]
               /\ UNCHANGED rd_links
          ELSE IF n = POLL_ATTEMPTS
          THEN /\ media_items' = AfterLoop(media_items, m)
               /\ acq' = [acq EXCEPT ![a].pc = "done", ![a].attempts = n, ![a].last = last,
                                     ![a].files = resp.files,
                                     ![a].outcome = "timed_out", ![a].calls = Made(0)]
               /\ UNCHANGED <<rd_torrents, rd_links>>
          ELSE /\ acq' = [acq EXCEPT ![a].attempts = n, ![a].calls = Made(0)]
               /\ UNCHANGED <<media_items, rd_torrents, rd_links>>
    /\ UNCHANGED <<removal, checked>>
    /\ UNCHANGED <<nextMediaItemId, add_magnet_calls, monitor>>
    /\ UNCHANGED notLife

\* the ids remove_media_item is called with
RemovableIds == 1..2

\* db.delete(media_item); db.commit(): MediaItem.rd_torrents has no delete
\* cascade, so the flush first sets media_item_id of the item's torrents to
\* NULL, which the NOT NULL column refuses
DeleteCommits(m, remoteOk) == TorrentsOf(m) = {}

\* remove_media_item: the provider is asked to delete each torrent (failures
\* are logged), then the media item is deleted
RemoveMediaItem(m, remoteOk) ==
    /\ removal.n < MaxRemovals
    /\ IF m \notin DOMAIN media_items
       THEN /\ removal' = [m |-> m, ret |-> FALSE, deletes |-> 0, had |-> 0,
                           n |-> removal.n + 1]
            /\ UNCHANGED media_items
       ELSE /\ removal' = [m |-> m, ret |-> DeleteCommits(m, remoteOk),
                           deletes |-> Cardinality(TorrentsOf(m)),
                           had |-> Cardinality(TorrentsOf(m)),
                           n |-> removal.n + 1]
            /\ media_items' =
                  IF DeleteCommits(m, remoteOk)
                  THEN [x \in DOMAIN media_items \ {m} |-> media_items[x]]
                  ELSE media_items
    /\ UNCHANGED <<rd_torrents, rd_links, nextMediaItemId, add_magnet_calls, acq,
                   checked, monitor>>
    /\ UNCHANGED notLife

\* what get_torrent_info gives the status tasks
TaskResponses == {"raise"} \cup RDStatuses

\* check_torrent_status: the stored status becomes what the provider reports
CheckTorrentStatus(t, resp) ==
    /\ t \in DOMAIN rd_torrents
    /\ checked.n < MaxChecks
    /\ checked' = [op |-> "check", t |-> t, before |-> rd_torrents[t].status,
                   n |-> checked.n + 1, resp |-> resp, lks |-> "none"]
    /\ rd_torrents' = IF resp = "raise" THEN rd_torrents
                      ELSE [rd_torrents EXCEPT ![t].status = resp]
    /\ UNCHANGED <<media_items, rd_links, nextMediaItemId, add_magnet_calls, acq,
                   removal, monitor>>
    /\ UNCHANGED notLife

\* monitor_pending_torrents, lines 47-57: the torrents to check
MonitorQuery ==
    /\ monitor = {}
    /\ checked.n < MaxChecks
    /\ monitor' = {t \in DOMAIN rd_torrents : rd_torrents[t].status \in PendingStatuses}
    /\ monitor' # {}
    /\ UNCHANGED <<media_items, rd_torrents, rd_links, nextMediaItemId, add_magnet_calls,
                   acq, removal, checked>>
    /\ UNCHANGED notLife

\* what the links of a downloaded torrent give: none, an unrestrict that
\* raises, links without download URL, links with one
MonitorLinks == {"no_links", "raise", "no_url", "url"}

\* lines 109-115: the RDLink of the monitor, for the link at position i of
\* the snapshot; rd_file_id and filename are not given
MonitorRow(t, i) ==
    [rd_torrent_id |-> t, file |-> <<>>, rd_file_id |-> NoFileId, link |-> i,
     url_of |-> i, by |-> "monitor"]

\* (mutant) rd_file_id is nullable
InsertableAny(row) == TRUE

\* rd_links.rd_file_id is NOT NULL (as is filename): the INSERT of a row
\* without it fails
Insertable(row) == row.rd_file_id # NoFileId

\* monitor_pending_torrents, lines 61-134: one torrent of the batch; the
\* snapshot lists one link.  An exception of a provider call or of a commit
\* is caught at line 131 and the session is rolled back.
MonitorStep(t, resp, lks) ==
    /\ t \in monitor
    /\ monitor' = monitor \ {t}
    /\ checked' = [op |-> "monitor", t |-> t, before |-> rd_torrents[t].status,
                   n |-> checked.n + 1, resp |-> resp,
                   lks |-> IF resp = "downloaded" THEN lks ELSE "none"]
    /\ LET m == rd_torrents[t].media_item_id
           \* db.add(rd_link) for the links with a download URL
           added == IF resp = "downloaded" /\ lks = "url" THEN {MonitorRow(t, 1)} ELSE {}
           raises == resp = "raise" \/ (resp = "downloaded" /\ lks = "raise")
           commits == ~raises /\ \A row \in added : Insertable(row)
       IN
       IF commits
       THEN /\ rd_torrents' = [rd_torrents EXCEPT ![t].status = resp]
            /\ rd_links' =
                  IF added = {} THEN rd_links
                  ELSE rd_links @@
                         ((Cardinality(DOMAIN rd_links) + 1) :> MonitorRow(t, 1))
            /\ media_items' =
                  IF resp = "downloaded" /\ lks \in {"no_url", "url"}
                     /\ m \in DOMAIN media_items
                  THEN [media_items EXCEPT ![m].is_available = TRUE]
                  ELSE media_items
       ELSE UNCHANGED <<rd_torrents, rd_links, media_items>>
    /\ UNCHANGED <<nextMediaItemId, add_magnet_calls, acq, removal>>
    /\ UNCHANGED notLife

\* link_cache_manager.py line 127: unrestrict_link(links[0])
LinkToRefresh(row, ls) == ls[1]

\* LinkCacheManager.refresh_link (lines 102-149) on the record l: the torrent
\* is looked up, its snapshot asked for, a link of the snapshot unrestricted
\* and the new URL stored
RefreshLinkOf(l, resp, unrestrict) ==
    /\ l \in DOMAIN rd_links
    /\ checked.n < MaxChecks
    /\ LET got == ~resp.raise /\ resp.status = "downloaded" /\ resp.links # <<>>
           ok == got /\ unrestrict = "url"
       IN /\ checked' = [op |-> "refresh_link", t |-> l,
                         before |-> rd_torrents[rd_links[l].rd_torrent_id].status,
                         n |-> checked.n + 1,
                         resp |-> IF resp.raise THEN "raise" ELSE resp.status,
                         lks |-> IF got THEN unrestrict ELSE "none"]
          /\ rd_links' = IF ok
                         THEN [rd_links EXCEPT ![l].url_of = LinkToRefresh(rd_links[l], resp.links)]
                         ELSE rd_links
    /\ UNCHANGED <<media_items, rd_torrents, nextMediaItemId, add_magnet_calls, acq,
                   removal, monitor>>
    /\ UNCHANGED notLife

----------------------------------------------------------------------------
(* The poll loops of process_torrent_for_content in the four clients; the  *)
(* torrent has been added, the loop asks for its state until it is ready,  *)
(* failed, or the attempts are used up.                                    *)

Clients == {"realdebrid", "alldebrid", "premiumize", "debrid_link"}

\* max_attempts of each loop
max_attempts ==
    [realdebrid |-> 30, alldebrid |-> 30, premiumize |-> 60, debrid_link |-> 60]

\* what the loop returned: a URL (of which file, when the client chose one)
\* or None; for the Real-Debrid client also the provider calls of the last
\* step and whether add_magnet returned an id
NoClient ==
    [client |-> "none", pc |-> "idle", attempts |-> 0, unrestricts |-> 0,
     ret |-> "pending", why |-> "none", file |-> <<>>, files |-> <<>>,
     rd_id |-> FALSE, calls |-> <<>>]

ClientReturn(c, n, u, ret, why, file) ==
    cl' = [c EXCEPT !.pc = "done", !.attempts = n, !.unrestricts = @ + u,
                    !.ret = ret, !.why = why, !.file = file]

\* the same, the provider having listed the files fs
ClientReturnOf(c, n, ret, why, file, fs) ==
    cl' = [c EXCEPT !.pc = "done", !.attempts = n, !.ret = ret, !.why = why,
                    !.file = file, !.files = fs]

\* (mutant) the loop starts over when its attempts are used up
ClientWaitAgain(c, n) ==
    cl' = [c EXCEPT !.attempts = IF n = max_attempts[c.client] THEN 0 ELSE n]

\* time.sleep; the next pass, or the end of the loop: return None
ClientWait(c, n) ==
    IF n = max_attempts[c.client]
    THEN ClientReturn(c, n, 0, "none", "timed_out", <<>>)
    ELSE cl' = [c EXCEPT !.attempts = n]

\* what the calls before the loop give: add_magnet, get_torrent_info,
\* select_files
SubmitResults ==
    [add : {"raise", "none", "id"}, info : {"raise", "no_files", "files"},
     select : {"raise", "ok"}]

\* rd_client.py lines 221-246: add_magnet, the id it returned, the files of
\* the torrent, select_files
RealDebridSubmit(r) ==
    /\ cl.client = "realdebrid"
    /\ cl.pc = "submit"
    /\ LET add == Call("add_magnet", r.add)
           info == Call("get_torrent_info", IF r.info = "raise" THEN "raise" ELSE "other")
           select == Call("select_files", r.select)
           Ends(calls, why) ==
               cl' = [cl EXCEPT !.pc = "done", !.ret = "none", !.why = why,
                                !.calls = calls, !.rd_id = r.add = "id"]
       IN CASE r.add = "raise" -> Ends(<<add>>, "api_error")
            [] r.add = "none" -> Ends(<<add>>, "no_id")
            [] r.add = "id" /\ r.info = "raise" -> Ends(<<add, info>>, "api_error")
            [] r.add = "id" /\ r.info = "no_files" -> Ends(<<add, info>>, "no_files")
            [] r.add = "id" /\ r.info = "files" /\ r.select = "raise" ->
                 Ends(<<add, info, select>>, "api_error")
            [] OTHER ->
                 cl' = [cl EXCEPT !.pc = "poll", !.calls = <<add, info, select>>,
                                  !.rd_id = TRUE]
    /\ UNCHANGED am
    /\ UNCHANGED notClient

\* rd_client.py lines 249-276
RealDebridPoll(resp, has_links, unrestrict) ==
    /\ cl.client = "realdebrid"
    /\ cl.pc = "poll"
    /\ LET n == cl.attempts + 1
           info == Call("get_torrent_info",
                        IF resp \in {"raise", "downloaded"} THEN resp ELSE "other")
           \* the pass called get_torrent_info only
           polled == [cl EXCEPT !.calls = <<info>>]
           \* the pass called unrestrict_link as well
           unrestricted == [cl EXCEPT !.calls = <<info, Call("unrestrict_link", unrestrict)>>]
       IN
       IF resp = "raise" THEN ClientReturn(polled, n, 0, "none", "api_error", <<>>)
       ELSE IF resp = "downloaded"
       THEN IF has_links
            THEN CASE unrestrict = "raise" ->
                        ClientReturn(unrestricted, n, 1, "none", "api_error", <<>>)
                   [] unrestrict = "empty" ->
                        ClientReturn(unrestricted, n, 1, "none", "no_url", <<>>)
                   [] unrestrict = "url" ->
                        ClientReturn(unrestricted, n, 1, "url", "ready", <<>>)
            ELSE ClientReturn(polled, n, 0, "none", "no_links", <<>>)
       ELSE IF resp \in {"error", "virus", "dead"}
       THEN ClientReturn(polled, n, 0, "none", "failed", <<>>)
       ELSE ClientWait(polled, n)
    /\ UNCHANGED am
    /\ UNCHANGED notClient

\* what AllDebrid reports: statusCode and status
AllDebridResponses ==
    {[raise |-> TRUE, statusCode |-> 0, status |-> "Queued"]}
    \cup {[raise |-> FALSE, statusCode |-> k, status |-> s] :
             k \in 0..6, s \in {"Queued", "Ready", "Error", "Expired"}}

\* alldebrid.py lines 247-290: the link of the largest file when one has its
\* name, the first link otherwise
AllDebridPoll(resp, has_links, unrestrict) ==
    /\ cl.client = "alldebrid"
    /\ cl.pc = "poll"
    /\ LET n == cl.attempts + 1 IN
       IF resp.raise THEN ClientReturn(cl, n, 0, "none", "api_error", <<>>)
       ELSE IF resp.statusCode = 4 \/ resp.status = "Ready"
       THEN IF has_links
            THEN CASE unrestrict = "raise" -> ClientReturn(cl, n, 1, "none", "api_error", <<>>)
                   [] unrestrict = "empty" -> ClientReturn(cl, n, 1, "none", "no_url", <<>>)
                   [] unrestrict = "url" -> ClientReturn(cl, n, 1, "url", "ready", <<>>)
            ELSE ClientReturn(cl, n, 0, "none", "no_links", <<>>)
       ELSE IF resp.statusCode \in {5, 6} \/ resp.status \in {"Error", "Expired"}
       THEN ClientReturn(cl, n, 0, "none", "failed", <<>>)
       ELSE ClientWait(cl, n)
    /\ UNCHANGED am
    /\ UNCHANGED notClient

\* the items of a Premiumize folder, the files of a Debrid-Link torrent:
\* name, size, whether the provider calls it a video, its direct link
ProviderFiles ==
    { [name |-> <<"m", "o", "v", "i", "e", ".", "m", "k", "v">>, size |-> 4 * GB,
       video_mime |-> TRUE, link |-> 1],
      [name |-> <<"s", "a", "m", "p", "l", "e", ".", "m", "k", "v">>, size |-> 50 * MB,
       video_mime |-> TRUE, link |-> 2],
      [name |-> <<"e", "x", "t", "r", "a", "s", ".", "r", "a", "r">>, size |-> 8 * GB,
       video_mime |-> FALSE, link |-> 3],
      [name |-> <<"r", "e", "a", "d", "m", "e", ".", "r", "a", "r">>, size |-> 1,
       video_mime |-> FALSE, link |-> 0] }

ProviderFileLists == UNION {[1..n -> ProviderFiles] : n \in 0..MaxProviderFiles}

\* max(files, key=size): the first of the largest
LargestOf(fs) ==
    fs[CHOOSE i \in 1..Len(fs) :
          /\ \A j \in 1..Len(fs) : fs[j].size <= fs[i].size
          /\ \A j \in 1..(i - 1) : fs[j].size < fs[i].size]

\* if not video_files: video_files = files
OrAllFiles(video_files, fs) == IF video_files = <<>> THEN fs ELSE video_files

\* premiumize.py lines 248-264, every item being a file
PremiumizeVideoFiles(content) ==
    OrAllFiles(SelectSeq(content, LAMBDA f : f.video_mime), content)

\* premiumize.py lines 318-342 and 239-268
PremiumizePoll(resp, has_folder, content) ==
    /\ cl.client = "premiumize"
    /\ cl.pc = "poll"
    /\ LET n == cl.attempts + 1 IN
       IF resp = "raise" THEN ClientReturn(cl, n, 0, "none", "api_error", <<>>)
       ELSE IF resp = "finished"
       THEN IF ~has_folder THEN ClientReturn(cl, n, 0, "none", "no_folder", <<>>)
            ELSE IF content = <<>> THEN ClientReturn(cl, n, 0, "none", "no_files", <<>>)
            ELSE LET chosen == LargestOf(PremiumizeVideoFiles(content)) IN
                 IF chosen.link = 0
                 THEN ClientReturnOf(cl, n, "none", "no_url", chosen.name, content)
                 ELSE ClientReturnOf(cl, n, "url", "ready", chosen.name, content)
       ELSE IF resp \in {"error", "banned", "timeout"}
       THEN ClientReturn(cl, n, 0, "none", "failed", <<>>)
       ELSE ClientWait(cl, n)
    /\ UNCHANGED am
    /\ UNCHANGED notClient

\* str.endswith
EndsWithExactly(name, ext) ==
    /\ Len(name) >= Len(ext)
    /\ SubSeq(name, Len(name) - Len(ext) + 1, Len(name)) = ext

\* debrid_link.py lines 268-271
DebridLinkExtensions ==
    {<<".", "m", "p", "4">>, <<".", "m", "k", "v">>, <<".", "a", "v", "i">>,
     <<".", "m", "o", "v">>, <<".", "w", "e", "b", "m">>}

\* debrid_link.py lines 268-274
DebridLinkVideoFiles(fs) ==
    OrAllFiles(SelectSeq(fs, LAMBDA f :
                   f.link # 0 /\ \E ext \in DebridLinkExtensions : EndsWithExactly(f.name, ext)),
               fs)

\* what Debrid-Link reports: status and downloadPercent
DebridLinkResponses ==
    {[raise |-> TRUE, status |-> 0, downloadPercent |-> 0]}
    \cup {[raise |-> FALSE, status |-> k, downloadPercent |-> pct] :
             k \in 0..4, pct \in {0, 100}}

\* debrid_link.py lines 253-296
DebridLinkPoll(resp, fs) ==
    /\ cl.client = "debrid_link"
    /\ cl.pc = "poll"
    /\ LET n == cl.attempts + 1 IN
       IF resp.raise THEN ClientReturn(cl, n, 0, "none", "api_error", <<>>)
       ELSE IF resp.status = 2 \/ resp.downloadPercent >= 100
       THEN IF fs = <<>> THEN ClientReturn(cl, n, 0, "none", "no_files", <<>>)
            ELSE LET chosen == LargestOf(DebridLinkVideoFiles(fs)) IN
                 IF chosen.link = 0
                 THEN ClientReturnOf(cl, n, "none", "no_url", chosen.name, fs)
                 ELSE ClientReturnOf(cl, n, "url", "ready", chosen.name, fs)
       ELSE IF resp.status \in {3, 4}
       THEN ClientReturn(cl, n, 0, "none", "failed", <<>>)
       ELSE ClientWait(cl, n)
    /\ UNCHANGED am
    /\ UNCHANGED notClient

----------------------------------------------------------------------------
(* add_magnet of the AllDebrid, Debrid-Link and Premiumize adapters, with  *)
(* _make_request.                                                           *)

Adapters == {"alldebrid", "debrid_link", "premiumize"}

\* the exception class of each adapter; each derives from DebridServiceError
APIError ==
    [alldebrid |-> "AllDebridAPIError", debrid_link |-> "DebridLinkAPIError",
     premiumize |-> "PremiumizeAPIError"]

DebridServiceErrors == {"AllDebridAPIError", "DebridLinkAPIError", "PremiumizeAPIError"}

\* what the provider may put into the body as its message
ProviderMessages == {"none", "quota exceeded", "invalid magnet"}

\* what session.request meets: no response at all (transport "failed"), or a
\* response with a status code and a JSON body: whether its envelope tells
\* success, failure or neither, the message of the provider, and whether the
\* payload names a torrent
HttpResponses ==
    {[transport |-> "failed", status_code |-> 0, envelope |-> "absent",
      message |-> "none", has_id |-> FALSE]}
    \cup [transport : {"ok"}, status_code : {200, 201, 400, 401, 503},
          envelope : {"success", "failure", "absent"},
          message : ProviderMessages, has_id : BOOLEAN]

\* response.raise_for_status()
RaiseForStatus(resp) == resp.status_code >= 400

\* the test of the envelope: AllDebrid and Premiumize look for status ==
\* "error", Debrid-Link for a success that is missing or false
EnvelopeFails(adapter, resp) ==
    IF adapter = "debrid_link" THEN resp.envelope # "success"
    ELSE resp.envelope = "failure"

Raised(adapter, detail) ==
    [raised |-> TRUE, type |-> APIError[adapter], detail |-> detail, id |-> FALSE]

Returned(has_id) ==
    [raised |-> FALSE, type |-> "none", detail |-> "none", id |-> has_id]

\* _make_request: a RequestException (no response, or the HTTPError of
\* raise_for_status, whose text is the status line and the URL) becomes the
\* error of the adapter with str(e); a failure envelope becomes the error of
\* the adapter with the message of the body, "Unknown error" without one
MakeRequest(adapter, resp) ==
    IF resp.transport = "failed" THEN Raised(adapter, "RequestException")
    ELSE IF RaiseForStatus(resp) THEN Raised(adapter, "HTTPError")
    ELSE IF EnvelopeFails(adapter, resp)
         THEN Raised(adapter, IF resp.message = "none" THEN "Unknown error"
                              ELSE resp.message)
         ELSE Returned(resp.has_id)

\* add_magnet: AllDebrid raises when the upload names no magnet; Debrid-Link
\* and Premiumize return what the request gave
AddMagnet(adapter, resp) ==
    LET result == MakeRequest(adapter, resp) IN
    IF result.raised THEN result
    ELSE IF adapter = "alldebrid" /\ ~result.id
         THEN Raised(adapter, "No magnet returned from upload")
         ELSE result

NoCall == [adapter |-> "none", resp |-> <<>>, result |-> <<>>]

\* one call of add_magnet
AddMagnetCall(adapter, resp) ==
    /\ am = NoCall
    /\ am' = [adapter |-> adapter, resp |-> resp, result |-> AddMagnet(adapter, resp)]
    /\ UNCHANGED cl
    /\ UNCHANGED notClient

----------------------------------------------------------------------------

(* Specifications *)

\* the steps of worker p
WorkerStep(p) ==
    \/ \E m \in MediaIds, e \in {NoEpisode} \cup EpisodeIds : GetValidLinkQuery(p, m, e)
    \/ GetValidLinkCheck(p)
    \/ RefreshExpiringQuery(p)
    \/ \E o \in InfoOutcomes : RefreshInfo(p, o)
    \/ \E o \in UnrestrictOutcomes : RefreshUnrestrict(p, o)
    \/ \E dbOk \in BOOLEAN : RefreshCommit(p, dbOk)

\* The store with its maintenance sweeps, one worker at a time.
Next ==
    \/ \E d \in BusyStep \cup IdleSteps : Tick(d)
    \/ \E m \in MediaIds : WebhookSaveLink(m)
    \/ WorkerStep("w1")
    \/ \E k \in 0..MaxLinks : InvalidateExpired(k)
    \/ \E k \in 0..MaxLinks : CleanupOld(DAYS_OLD, k)

Spec == Init /\ [][Next]_vars

\* the beat fires now
BeatDue == now % REFRESH_EVERY_MINUTES = 0

\* A minute passes under the beat schedule: the refresh that is due has run
\* (no link is left in its window), and a refresh in flight ends before the
\* next one is due.
Minute ==
    /\ now < Horizon
    /\ IF pc["w1"] = "idle"
       THEN BeatDue => Expiring = {}
       ELSE (now + 1) % REFRESH_EVERY_MINUTES # 0
    /\ now' = now + 1
    /\ hist' = NoHist
    /\ UNCHANGED <<aux, ticks, media, torrents, links, nextTorrentId, nextLinkId, issued, pc, loc>>

\* The store under the beat schedule, every refresh succeeding: links are
\* created, refresh_all_expiring_links runs every 15 minutes, and
\* cleanup_expired_links with its invalidate_expired_links every hour.
NextSchedule ==
    \/ Minute
    \/ \E m \in MediaIds :
          now < CreateBefore /\ nextLinkId <= ScheduleLinks /\ WebhookSaveLink(m)
    \/ BeatDue /\ RefreshExpiringQuery("w1")
    \/ RefreshInfo("w1", "ok")
    \/ RefreshUnrestrict("w1", "ok")
    \/ RefreshCommit("w1", TRUE)
    \/ now % INVALIDATE_EVERY_MINUTES = 0 /\ InvalidateExpired(0)

SpecSchedule == Init /\ [][NextSchedule]_vars

\* The store with its sweeps, the removal of media items and the deletion of
\* torrents.
NextIntegrity ==
    \/ \E d \in BusyStep \cup IdleSteps : Tick(d)
    \/ \E m \in MediaIds : WebhookSaveLink(m)
    \/ RefreshExpiringQuery("w1")
    \/ \E o \in InfoOutcomes : RefreshInfo("w1", o)
    \/ \E o \in UnrestrictOutcomes : RefreshUnrestrict("w1", o)
    \/ \E dbOk \in BOOLEAN : RefreshCommit("w1", dbOk)
    \/ \E k \in 0..MaxLinks : InvalidateExpired(k)
    \/ \E k \in 0..MaxLinks : CleanupOld(DAYS_OLD, k)
    \/ \E m \in MediaIds : RemoveMedia(m)
    \/ \E t \in 1..MaxLinks : DeleteTorrent(t)

SpecIntegrity == Init /\ [][NextIntegrity]_vars

\* Two workers at once on the links of one acquisition, while media items
\* are removed.
NextRace ==
    \/ \E d \in BusyStep \cup IdleSteps : Tick(d)
    \/ \E m \in MediaIds : nextLinkId <= RaceLinks /\ WebhookSaveLink(m)
    \/ \E m \in MediaIds : RemoveMedia(m)
    \/ \E p \in Workers : WorkerStep(p)

SpecRace == Init /\ [][NextRace]_vars

\* The readers: get_valid_link, the play endpoints and the episode listing,
\* with and without the invalidation sweep.
NextRead ==
    \/ \E d \in BusyStep \cup IdleSteps : Tick(d)
    \/ \E m \in MediaIds : WebhookSaveLink(m)
    \/ \E m \in MediaIds, e \in {NoEpisode} \cup EpisodeIds : GetValidLinkQuery("w1", m, e)
    \/ GetValidLinkCheck("w1")
    \/ \E o \in InfoOutcomes : RefreshInfo("w1", o)
    \/ \E o \in UnrestrictOutcomes : RefreshUnrestrict("w1", o)
    \/ \E dbOk \in BOOLEAN : RefreshCommit("w1", dbOk)
    \/ \E k \in 0..MaxLinks : InvalidateExpired(k)
    \/ \E m \in MediaIds, tok \in BOOLEAN : PlayMovie(m, tok)
    \/ \E e \in EpisodeIds, tok \in BOOLEAN : PlayEpisode(e, tok)
    \/ \E m \in MediaIds : SeasonEpisodes(m)

SpecRead == Init /\ [][NextRead]_vars

\* a link created at time 0 and kept alive by refreshes for a week: the last
\* refresh gave it the expiry e
AgedLink(id, e) ==
    [id |-> id, rd_torrent_id |-> id, episode_id |-> NoEpisode,
     streaming_url |-> id, is_valid |-> TRUE, expires_at |-> e,
     created_at |-> 0, updated_at |-> e - LinkTTL, last_accessed |-> e - LinkTTL,
     generated_at |-> e - LinkTTL]

\* The store after a week: one link per media item, each about to expire.
InitSweep ==
    /\ now = Days(DAYS_OLD)
    /\ ticks = 0
    /\ media = MediaIds
    /\ torrents = [t \in MediaIds |-> [id |-> t, media_item_id |-> t]]
    /\ \E e1 \in {now + 1, now + 20}, e2 \in {now + 1, now + 240} :
          links = [l \in MediaIds |-> AgedLink(l, IF l = 1 THEN e1 ELSE e2)]
    /\ nextTorrentId = 3
    /\ nextLinkId = 3
    /\ issued = 2
    /\ pc = [p \in Workers |-> "idle"]
    /\ loc = [p \in Workers |-> IdleLoc]
    /\ hist = NoHist
    /\ SelectorIdle
    /\ NormalizerIdle
    /\ FilesIdle
    /\ LifeInit

\* The refresh sweep over several links while the invalidation and the
\* cleanup run on another worker.
NextSweep ==
    \/ \E d \in BusyStep \cup IdleSteps : Tick(d)
    \/ RefreshExpiringQuery("w1")
    \/ \E o \in InfoOutcomes : RefreshInfo("w1", o)
    \/ \E o \in UnrestrictOutcomes : RefreshUnrestrict("w1", o)
    \/ \E dbOk \in BOOLEAN : RefreshCommit("w1", dbOk)
    \/ \E k \in 0..MaxLinks : InvalidateExpired(k)
    \/ \E k \in 0..MaxLinks : CleanupOld(DAYS_OLD, k)

SpecSweep == InitSweep /\ [][NextSweep]_vars

\* The selector called on every list of search results.
InitSelect ==
    /\ StoreInit
    /\ candidates \in CandidateLists
    /\ selected = NoCand
    /\ selPc = "ready"
    /\ NormalizerIdle
    /\ FilesIdle
    /\ LifeInit

NextSelect == SelectBestTorrent

SpecSelect == InitSelect /\ [][NextSelect]_vars

\* Each adapter's normalizer called on every status.
InitStatus ==
    /\ StoreInit
    /\ SelectorIdle
    /\ provider \in Providers
    /\ provider_status \in StatusInputs
    /\ normalized = "pending"
    /\ FilesIdle
    /\ LifeInit

NextStatus == \E pr \in Providers : NormalizeTorrentStatus(pr)

SpecStatus == InitStatus /\ [][NextStatus]_vars

\* The choice of the file on every list of files and links.
InitFiles ==
    /\ StoreInit
    /\ SelectorIdle
    /\ NormalizerIdle
    /\ files \in FileLists
    /\ torrent_links \in LinkLists(files)
    /\ selected_file = NoFile
    /\ fileResult = "pending"
    /\ LifeInit

NextFiles == ProcessDownloaded

SpecFiles == InitFiles /\ [][NextFiles]_vars

\* Two webhook acquisitions and the removal of media items.
NextWebhook(a) ==
    \/ \E approved \in BOOLEAN, tm \in {0} \cup TmdbIds : WebhookStart(a, approved, tm)
    \/ WebhookCheckExisting(a)
    \/ WebhookInsertMedia(a)
    \/ \E metadata \in BOOLEAN, rd_token \in BOOLEAN : WebhookMetadata(a, metadata, rd_token)
    \/ \E result \in ProcessResults, status \in RDStatuses : WebhookProcess(a, result, status)
    \/ \E resp \in PollResponses, unrestrict \in UnrestrictResults :
          WebhookPoll(a, resp, unrestrict)

NextRemove == \E m \in RemovableIds, remoteOk \in BOOLEAN : RemoveMediaItem(m, remoteOk)

\* Two deliveries of the webhook and the removal of media items.
NextAcquire ==
    \/ \E a \in Acqs : NextWebhook(a)
    \/ NextRemove

SpecAcquire == Init /\ [][NextAcquire]_vars

\* One delivery of the webhook, the removal of media items and the status
\* tasks.
NextTasks ==
    \/ NextWebhook("a1")
    \/ NextRemove
    \/ \E t \in 1..2, resp \in TaskResponses : CheckTorrentStatus(t, resp)
    \/ MonitorQuery
    \/ \E t \in 1..2, resp \in TaskResponses, lks \in MonitorLinks : MonitorStep(t, resp, lks)

SpecTasks == Init /\ [][NextTasks]_vars

\* One delivery of the webhook and the periodic monitor_pending_torrents.
NextMonitor ==
    \/ NextWebhook("a1")
    \/ MonitorQuery
    \/ \E t \in 1..2, resp \in TaskResponses, lks \in MonitorLinks : MonitorStep(t, resp, lks)

\* the poll loop of the webhook runs on; beat starts monitor_pending_torrents
\* every 5 minutes, and a run that has begun goes through its batch
MonitorFair ==
    /\ WF_vars(\E resp \in PollResponses, unrestrict \in UnrestrictResults :
                  WebhookPoll("a1", resp, unrestrict))
    /\ WF_vars(MonitorQuery)
    /\ WF_vars(\E t \in 1..2, resp \in TaskResponses, lks \in MonitorLinks :
                  MonitorStep(t, resp, lks))

SpecMonitor == Init /\ [][NextMonitor]_vars /\ MonitorFair

\* One delivery of the webhook, and refresh_link on the links it stored.
NextRefreshFile ==
    \/ NextWebhook("a1")
    \/ \E l \in 1..2, resp \in PollResponses, unrestrict \in UnrestrictResults :
          RefreshLinkOf(l, resp, unrestrict)

SpecRefreshFile == Init /\ [][NextRefreshFile]_vars

\* The poll loops: the two webhook acquisitions, or the loop of one client.
InitLoops ==
    /\ StoreInit
    /\ SelectorIdle
    /\ NormalizerIdle
    /\ FilesIdle
    /\ media_items = <<>>
    /\ rd_torrents = <<>>
    /\ rd_links = <<>>
    /\ nextMediaItemId = 1
    /\ add_magnet_calls = [tm \in {0, 1, 2} |-> 0]
    /\ acq = [a \in Acqs |-> NoAcq]
    /\ removal = NoRemoval
    /\ checked = NoCheck
    /\ monitor = {}
    /\ cl \in {NoClient}
             \cup {[NoClient EXCEPT !.client = c,
                                    !.pc = IF c = "realdebrid" THEN "submit" ELSE "poll"] :
                      c \in Clients}
    /\ am = NoCall

NextClient ==
    \/ \E r \in SubmitResults : RealDebridSubmit(r)
    \/ \E resp \in {"raise"} \cup RDStatuses, has_links \in BOOLEAN,
          unrestrict \in UnrestrictResults : RealDebridPoll(resp, has_links, unrestrict)
    \/ \E resp \in AllDebridResponses, has_links \in BOOLEAN,
          unrestrict \in UnrestrictResults : AllDebridPoll(resp, has_links, unrestrict)
    \/ \E resp \in {"raise", "waiting", "running", "finished", "error", "banned", "timeout"},
          has_folder \in BOOLEAN, content \in ProviderFileLists :
          PremiumizePoll(resp, has_folder, content)
    \/ \E resp \in DebridLinkResponses, fs \in ProviderFileLists : DebridLinkPoll(resp, fs)

NextLoops ==
    \/ cl.client = "none" /\ NextWebhook("a1")
    \/ NextClient

\* each loop runs on: the worker that executes it is not stopped
LoopsFair ==
    /\ WF_vars(\E resp \in PollResponses, unrestrict \in UnrestrictResults :
                  WebhookPoll("a1", resp, unrestrict))
    /\ WF_vars(NextClient)

SpecLoops == InitLoops /\ [][NextLoops]_vars /\ LoopsFair

\* One call of add_magnet on any adapter, with any response.
NextSubmit == \E adapter \in Adapters, resp \in HttpResponses : AddMagnetCall(adapter, resp)

SpecSubmit == Init /\ [][NextSubmit]_vars

----------------------------------------------------------------------------
(* Properties *)

RefreshPcs == {"rf_info", "rf_unrestrict", "rf_commit"}

\* worker p takes a step
Moves(p) == pc'[p] # pc[p] \/ loc'[p] # loc[p]

\* a call of refresh_link by worker p ends in this step
RefreshEnds(p) == pc[p] \in RefreshPcs /\ Moves(p) /\ pc'[p] \in {"idle", "rf_info"}

\* ... and it returned the refreshed link (not None)
RefreshResult(p) == IF pc'[p] = "idle" THEN hist'.w.refreshed ELSE loc'[p].refreshed

\* the link belongs to media item m
LinkOf(l, m) ==
    /\ links[l].rd_torrent_id \in DOMAIN torrents
    /\ torrents[links[l].rd_torrent_id].media_item_id = m

\* C1: get_valid_link never returns a link whose expires_at <= now, now
\* being the time of the return.
C1_NeverReturnsExpired ==
    (hist.op = "gvl" /\ hist.w.ret # NoLink) => hist.w.ret.expires_at > now

C3_NewerUrlNotOverwritten ==
    [][\A l \in DOMAIN links \cap DOMAIN links' :
          links'[l].streaming_url >= links[l].streaming_url]_vars

C5_InvalidateIdempotent ==
    [][(hist.op = "invalidate" /\ hist.ok /\ hist'.op = "invalidate")
          => (hist'.count = 0 /\ links' = links)]_vars

\* the second of two calls in a row, the first one having invalidated links
C5_Witness ==
    /\ hist.op = "invalidate"
    /\ hist.after = "invalidate"
    /\ hist.afterCount >= 1
    /\ hist.count = 0

\* C6: an invalidate_expired_links that commits leaves no link with
\* is_valid and expires_at <= now, and returns the number of links that had
\* is_valid and expires_at <= now when it started.
C6_InvalidateComplete ==
    [][(hist'.op = "invalidate" /\ hist'.ok) =>
          /\ \A l \in DOMAIN links' :
                ~(links'[l].is_valid /\ links'[l].expires_at <= now')
          /\ hist'.count =
                Cardinality({l \in DOMAIN links :
                                links[l].is_valid /\ links[l].expires_at <= now})]_vars

\* a call that invalidated a link expiring at this very minute
C6_Witness ==
    /\ hist.op = "invalidate"
    /\ hist.ok
    /\ hist.count >= 1
    /\ \E l \in DOMAIN links : ~links[l].is_valid /\ links[l].expires_at = now

Candidates(m, e) ==
    {l \in DOMAIN links :
        /\ links[l].is_valid
        /\ links[l].expires_at > now
        /\ LinkOf(l, m)
        /\ links[l].episode_id = e}

\* C8: the query of get_valid_link(m, e) finds a link of Candidates(m, e)
\* with the greatest created_at, and finds none only when there is none; the
\* call returns None exactly when the query found none.
C8_NewestMatchingLink ==
    [][/\ \A p \in Workers :
             (pc[p] = "idle" /\ pc'[p] = "gvl_check") =>
                 LET w == loc'[p]
                 IN /\ w.found.id \in Candidates(w.m, w.e)
                    /\ w.found = links[w.found.id]
                    /\ \A k \in Candidates(w.m, w.e) :
                          links[k].created_at <= w.found.created_at
       /\ (hist'.op = "gvl" /\ ~hist'.w.checked) =>
             Candidates(hist'.w.m, hist'.w.e) = {}
       /\ hist'.op = "gvl" =>
             ((hist'.w.ret = NoLink) <=> (hist'.w.found = NoLink))]_vars

\* the link returned was chosen over an older valid link of the same media
C8_Witness ==
    /\ hist.op = "gvl"
    /\ hist.w.ret # NoLink
    /\ \E k \in DOMAIN links :
          /\ k # hist.w.ret.id
          /\ LinkOf(k, hist.w.m)
          /\ links[k].is_valid
          /\ links[k].expires_at > now
          /\ links[k].created_at < hist.w.ret.created_at

\* C9: the expiry of every link is 4 hours after the time it was last
\* generated (created, or refreshed with success); a refresh_link that
\* succeeds sets expires_at to now + 4 hours and is_valid to true.
C9_ExpiryFromLastGeneration ==
    [][/\ \A l \in DOMAIN links' :
             links'[l].expires_at = links'[l].generated_at + 4 * 60
       /\ \A p \in Workers :
             (RefreshEnds(p) /\ RefreshResult(p)) =>
                 /\ links'[loc[p].rec.id].expires_at = now + 4 * 60
                 /\ links'[loc[p].rec.id].is_valid]_vars

\* a link refreshed three and a half hours or more after its creation
C9_Witness ==
    \E l \in DOMAIN links :
        /\ links[l].generated_at >= links[l].created_at + 210
        /\ links[l].expires_at > links[l].created_at + 4 * 60

\* C10: no reader serves or counts a link with expires_at <= now:
\* get_valid_link, the two play endpoints, the has_streaming_url flags.
C10_ReadersSkipExpired ==
    /\ (hist.op = "gvl" /\ hist.w.ret # NoLink) => hist.w.ret.expires_at > now
    /\ (hist.op \in {"play_movie", "play_episode"} /\ hist.served # NoLink) =>
          hist.served.expires_at > now
    /\ hist.op = "episodes" =>
          \A e \in DOMAIN hist.flags :
             hist.flags[e] =>
                \E l \in DOMAIN links :
                   /\ links[l].episode_id = e
                   /\ links[l].is_valid
                   /\ links[l].expires_at > now

\* the links refresh_expiring_links is to refresh: valid, not yet expired,
\* expiring within 30 minutes
InWindow ==
    {l \in DOMAIN links :
        /\ links[l].is_valid
        /\ now < links[l].expires_at
        /\ links[l].expires_at <= now + 30}

\* C11: refresh_expiring_links takes as its batch exactly the links that are
\* valid with now < expires_at <= now + 30 minutes; when it returns, it has
\* called refresh_link on every link of the batch, whatever refresh failed
\* before, and the count it returns is the number of links it refreshed.
C11_SweepRefreshesWholeBatch ==
    [][/\ \A p \in Workers :
             /\ (pc[p] = "idle" /\ pc'[p] = "rf_info" /\ loc'[p].op = "batch") =>
                    {loc'[p].rec.id} \cup loc'[p].todo = InWindow
             /\ (pc[p] = "idle" /\ Moves(p) /\ hist'.op = "batch") => InWindow = {}
       /\ hist'.op = "batch" =>
             /\ hist'.w.todo = {}
             /\ hist'.count = Cardinality(hist'.w.okUrls)]_vars

\* C12: no call of refresh_link raises to its caller; a failure shows as
\* None or as a lower count.  (refresh_expiring_links,
\* invalidate_expired_links and cleanup_old_links catch every exception of
\* their body.)
C12_NeverRaises ==
    hist.op \in {"gvl", "batch"} => ~hist.w.raised

\* C13: cleanup_old_links(7 days) that commits deletes exactly the links
\* with is_valid false and created_at < now - 7 days, leaves every other link
\* as it is and returns the number of links deleted; one that fails deletes
\* nothing and returns 0.
C13_CleanupDeletesOldInvalid ==
    [][hist'.op = "cleanup" =>
          LET old == {l \in DOMAIN links :
                         ~links[l].is_valid /\ links[l].created_at < now - 7 * 24 * 60}
          IN IF hist'.ok
             THEN /\ DOMAIN links' = DOMAIN links \ old
                  /\ \A l \in DOMAIN links' : links'[l] = links[l]
                  /\ hist'.count = Cardinality(old)
             ELSE /\ links' = links
                  /\ hist'.count = 0]_vars

\* a cleanup deleted an old invalid link and kept another link
C13_Witness ==
    /\ hist.op = "cleanup"
    /\ hist.ok
    /\ hist.count >= 1
    /\ DOMAIN links # {}

----------------------------------------------------------------------------
(* Properties of the selector *)

\* the selector is called in this step
SelectorCalled == selPc = "ready" /\ selPc' = "done"

\* the elements of a list
Elems(ts) == {ts[i] : i \in 1..Len(ts)}

\* the size is within [700 MB, 15 GB]
SizeInRange(t) == 700 * 1024 <= t.size /\ t.size <= 15 * 1024 * 1024

\* 2160p = 4 > 1080p = 3 > 720p = 2 > 480p = 1 > anything else = 0
RankOf(t) ==
    CASE t.quality = "2160p" -> 4
      [] t.quality = "1080p" -> 3
      [] t.quality = "720p" -> 2
      [] t.quality = "480p" -> 1
      [] OTHER -> 0

\* a missing seeder count is 0
SeedersOf(t) == IF t.seeders = NoSeeders THEN 0 ELSE t.seeders

\* candidate a ranks strictly above candidate b
RanksAbove(a, b) ==
    \/ RankOf(a) > RankOf(b)
    \/ RankOf(a) = RankOf(b) /\ SeedersOf(a) > SeedersOf(b)

\* the candidates the ranking is over
ConsideredSet(ts) ==
    IF \E t \in Elems(ts) : SizeInRange(t)
    THEN {t \in Elems(ts) : SizeInRange(t)}
    ELSE Elems(ts)

\* C14: for a non-empty list with no candidate in the size range the
\* selector returns a candidate of the list that no candidate of the list
\* ranks above; it returns None only when the list is empty.
C14_FallbackToUnfiltered ==
    [][SelectorCalled =>
          /\ (candidates # <<>> /\ \A t \in Elems(candidates) : ~SizeInRange(t)) =>
                /\ selected' \in Elems(candidates)
                /\ \A t \in Elems(candidates) : ~RanksAbove(t, selected')
          /\ selected' = NoCand => candidates = <<>>]_vars

\* the selector returned a candidate of a list of several, none in range
C14_Witness ==
    /\ selPc = "done"
    /\ Len(candidates) >= 2
    /\ \A t \in Elems(candidates) : ~SizeInRange(t)
    /\ selected \in Elems(candidates)

Scenario3 ==
    << [id |-> 1, size |-> 500 * 1024, quality |-> "720p", seeders |-> 5],
       [id |-> 2, size |-> 2 * 1024 * 1024, quality |-> "1080p", seeders |-> 1],
       [id |-> 3, size |-> 20 * 1024 * 1024, quality |-> "480p", seeders |-> 50] >>

\* C16: when some candidate is within [700 MB, 15 GB] the candidate
\* returned is within it; of the three candidates of the scenario the
\* 2 GB / 1080p one is returned.
C16_InRangePreferred ==
    [][SelectorCalled =>
          /\ (\E t \in Elems(candidates) : SizeInRange(t)) => SizeInRange(selected')
          /\ candidates = Scenario3 => selected' = Scenario3[2]]_vars

\* the selector was called on the scenario
C16_Witness ==
    /\ selPc = "done"
    /\ candidates = Scenario3
    /\ selected = Scenario3[2]

\* C18: the call leaves the caller's list as it was.
C18_CallerListUnchanged ==
    [][SelectorCalled => candidates' = candidates]_vars

----------------------------------------------------------------------------
(* Properties of the status normalizers *)

\* the seven normalized values
SevenStatuses ==
    {"queued", "downloading", "processing", "ready", "error", "expired", "dead"}

\* the status strings (in lower case) and the codes each provider documents
VocabularyWords(pr) ==
    CASE pr = "alldebrid" ->
          {<<"q", "u", "e", "u", "e", "d">>,
           <<"p", "r", "o", "c", "e", "s", "s", "i", "n", "g">>,
           <<"c", "o", "m", "p", "r", "e", "s", "s", "i", "n", "g">>,
           <<"u", "p", "l", "o", "a", "d", "i", "n", "g">>,
           <<"r", "e", "a", "d", "y">>,
           <<"e", "r", "r", "o", "r">>,
           <<"e", "x", "p", "i", "r", "e", "d">>}
      [] pr = "premiumize" ->
          {<<"w", "a", "i", "t", "i", "n", "g">>,
           <<"q", "u", "e", "u", "e", "d">>,
           <<"r", "u", "n", "n", "i", "n", "g">>,
           <<"f", "i", "n", "i", "s", "h", "i", "n", "g">>,
           <<"f", "i", "n", "i", "s", "h", "e", "d">>,
           <<"e", "r", "r", "o", "r">>,
           <<"b", "a", "n", "n", "e", "d">>,
           <<"t", "i", "m", "e", "o", "u", "t">>,
           <<"s", "e", "e", "d", "i", "n", "g">>}
      [] pr = "debrid_link" ->
          {<<"w", "a", "i", "t", "i", "n", "g">>,
           <<"d", "o", "w", "n", "l", "o", "a", "d", "i", "n", "g">>,
           <<"d", "o", "w", "n", "l", "o", "a", "d", "e", "d">>,
           <<"e", "r", "r", "o", "r">>,
           <<"v", "i", "r", "u", "s">>}

VocabularyCodes(pr) ==
    CASE pr = "alldebrid" -> 0..6
      [] pr = "premiumize" -> {}
      [] pr = "debrid_link" -> 0..4

\* the status is a string, or a numeric code of a provider that reports codes
Reportable(pr, x) == x.kind = "str" \/ pr \in {"alldebrid", "debrid_link"}

\* the status, whatever its letter case, is of the provider's vocabulary
InVocabulary(pr, x) ==
    IF x.kind = "int" THEN x.code \in VocabularyCodes(pr)
    ELSE \E w \in VocabularyWords(pr) :
            /\ Len(w) = Len(x.chars)
            /\ \A i \in 1..Len(w) : x.chars[i] \in {w[i], UpperChar(w[i])}

\* C19: each adapter maps every status its provider can report to one of
\* the seven normalized values, and every status outside its vocabulary to
\* ERROR.
C19_NormalizedStatusTotal ==
    (normalized # "pending" /\ Reportable(provider, provider_status)) =>
        /\ normalized \in SevenStatuses
        /\ ~InVocabulary(provider, provider_status) => normalized = "error"

\* an adapter was given a word of another provider's vocabulary in capital
\* letters and answered ERROR
C19_Witness ==
    /\ normalized = "error"
    /\ provider_status.kind = "str"
    /\ provider_status.chars # <<>>
    /\ provider_status.chars = Upper(provider_status.chars)
    /\ provider_status.chars # Lower(provider_status.chars)
    /\ ~InVocabulary(provider, provider_status)
    /\ \E pr \in Providers : InVocabulary(pr, provider_status)

----------------------------------------------------------------------------
(* Properties of the choice of the file *)

\* the path ends in the extension, whatever the letter case
EndsWith(path, ext) ==
    /\ Len(path) >= Len(ext)
    /\ \A i \in 1..Len(ext) :
          path[Len(path) - Len(ext) + i] \in {ext[i], UpperChar(ext[i])}

HasVideoExtension(f) ==
    \E ext \in {<<".", "m", "p", "4">>, <<".", "m", "k", "v">>, <<".", "a", "v", "i">>, <<".", "m", "o", "v">>, <<".", "w", "e", "b", "m">>, <<".", "f", "l", "v">>, <<".", "m", "4", "v">>, <<".", "w", "m", "v">>} : EndsWith(f.path, ext)

HasArchiveExtension(f) ==
    \E ext \in {<<".", "r", "a", "r">>, <<".", "z", "i", "p">>, <<".", "7", "z">>, <<".", "t", "a", "r">>, <<".", "g", "z">>} : EndsWith(f.path, ext)

FileSet == {files[i] : i \in 1..Len(files)}

MoviePath == <<"m", "o", "v", "i", "e", ".", "m", "k", "v">>

ScenarioFiles ==
    << [path |-> MoviePath, bytes |-> 4 * 1024 * 1024],
       [path |-> <<"s", "a", "m", "p", "l", "e", ".", "m", "k", "v">>, bytes |-> 50 * 1024],
       [path |-> <<"r", "e", "a", "d", "m", "e", ".", "r", "a", "r">>, bytes |-> 1] >>

\* C20: the file chosen for a downloaded torrent is one of its files with a
\* video extension, no file with a video extension is larger, it has no
\* archive extension; of movie.mkv 4 GB, sample.mkv 50 MB and readme.rar
\* 1 KB the choice is movie.mkv.
C20_LargestVideoFile ==
    fileResult = "selected" =>
        /\ \E f \in FileSet :
              /\ f.path = selected_file.path
              /\ f.bytes = selected_file.size
              /\ HasVideoExtension(f)
              /\ ~HasArchiveExtension(f)
        /\ \A f \in FileSet : HasVideoExtension(f) => f.bytes <= selected_file.size
        /\ files = ScenarioFiles => selected_file.path = MoviePath

\* a video file that is neither the first nor the largest file of the
\* torrent was chosen, an archive being the largest
C20_Witness ==
    /\ fileResult = "selected"
    /\ selected_file.index > 0
    /\ \E f \in FileSet : HasArchiveExtension(f) /\ f.bytes > selected_file.size
    /\ \E f \in FileSet : HasVideoExtension(f) /\ f.bytes < selected_file.size

----------------------------------------------------------------------------
(* Properties of the acquisition *)

\* two acquisitions were started for the media subject
BothFor(tm) == \A a \in Acqs : acq[a].tmdb = tm /\ acq[a].pc # "idle"

\* C25: of two acquisitions for the same tmdb_id at most one calls
\* add_magnet, and at most one media item and one torrent exist for it.
C25_SubmittedAtMostOnce ==
    \A tm \in TmdbIds :
        BothFor(tm) =>
            /\ add_magnet_calls[tm] <= 1
            /\ Cardinality(MediaWithTmdb(tm)) <= 1
            /\ Cardinality(UNION {TorrentsOf(m) : m \in MediaWithTmdb(tm)}) <= 1

\* none of the listed names ends in a video extension
NoVideoAmong(names) == \A i \in 1..Len(names) : ~HasVideoExtension([path |-> names[i]])

\* C21: when a downloaded torrent lists no file with a video extension, nothing
\* is unrestricted, no URL is returned, no link is stored and the media item
\* is not marked available.
C21_NoVideoFileNoLink ==
    /\ \A a \in Acqs :
          (/\ acq[a].pc = "done"
           /\ acq[a].last = "downloaded"
           /\ NoVideoAmong([i \in 1..Len(acq[a].files) |-> acq[a].files[i].path]))
          => /\ acq[a].unrestricts = 0
             /\ LinksOfTorrent(acq[a].torrent) = {}
             /\ ~media_items[acq[a].media].is_available
    /\ (/\ cl.client \in {"premiumize", "debrid_link"}
        /\ cl.pc = "done"
        /\ NoVideoAmong([i \in 1..Len(cl.files) |-> cl.files[i].name]))
       => cl.ret = "none"

\* C30: every poll loop ends: it asks for the state of the torrent at most 15
\* times in the webhook flow, 30 times in the Real-Debrid and AllDebrid
\* clients, 60 times in the Premiumize and Debrid-Link clients, and then has
\* returned a URL or None, or has recorded the outcome of the acquisition.
C30_PollLoopsTerminate ==
    /\ [](\A a \in Acqs : acq[a].attempts <= 15)
    /\ [](cl.client \in {"realdebrid", "alldebrid"} => cl.attempts <= 30)
    /\ [](cl.client \in {"premiumize", "debrid_link"} => cl.attempts <= 60)
    /\ \A a \in Acqs :
          (acq[a].pc = "poll") ~> (acq[a].pc = "done" /\ acq[a].outcome # "none")
    /\ (cl.pc = "poll") ~> (cl.pc = "done" /\ cl.ret \in {"url", "none"})

\* the Premiumize loop has used its 60 attempts and returned None
C30_Witness ==
    /\ cl.client = "premiumize"
    /\ cl.pc = "done"
    /\ cl.attempts = 60
    /\ cl.why = "timed_out"
    /\ cl.ret = "none"

\* the step in which acquisition a uses up its 15 attempts, the provider
\* reporting a status that is neither downloaded nor a failure
TimesOut(a) ==
    /\ acq[a].pc = "poll"
    /\ acq'[a].pc = "done"
    /\ acq'[a].attempts = 15
    /\ acq'[a].last \in RDStatuses \ (FailedStatuses \cup {"downloaded"})

\* acquisition a has timed out
TimedOut(a) ==
    /\ acq[a].pc = "done"
    /\ acq[a].attempts = 15
    /\ acq[a].last \in RDStatuses \ (FailedStatuses \cup {"downloaded"})

ObservesFailure(a) ==
    /\ acq[a].pc = "poll"
    /\ acq'[a].attempts = acq[a].attempts + 1
    /\ acq'[a].last \in {"error", "virus", "dead"}

\* C23: when a poll finds the torrent in error, virus or dead, the loop ends:
\* the acquisition asks for no further state and unrestricts nothing, the
\* failure status and an error detail are stored with the torrent, and no
\* link is created.  The Real-Debrid client returns None at once.
C23_TerminalFailureStops ==
    /\ [][\A a \in Acqs :
             ObservesFailure(a) =>
                /\ acq'[a].pc = "done"
                /\ rd_torrents'[acq[a].torrent].status = acq'[a].last
                /\ rd_torrents'[acq[a].torrent].error_message # NoMsg
                /\ rd_links' = rd_links
                /\ acq'[a].unrestricts = acq[a].unrestricts]_vars
    /\ [][\A a \in Acqs : acq[a].pc = "done" => acq'[a] = acq[a]]_vars
    /\ [][(cl.client = "realdebrid" /\ cl.pc = "poll" /\ cl'.why = "failed") =>
             /\ cl'.pc = "done"
             /\ cl'.ret = "none"
             /\ cl'.unrestricts = cl.unrestricts]_vars
    /\ [][cl.pc = "done" => cl' = cl]_vars

\* the third poll found a virus: the acquisition is over, the failure stored
C23_Witness ==
    /\ acq["a1"].pc = "done"
    /\ acq["a1"].attempts = 3
    /\ acq["a1"].last = "virus"
    /\ acq["a1"].unrestricts = 0
    /\ rd_torrents[acq["a1"].torrent].status = "virus"
    /\ rd_torrents[acq["a1"].torrent].error_message # NoMsg
    /\ LinksOfTorrent(acq["a1"].torrent) = {}

\* C24: a stored status of error, virus or dead is never changed again, and a
\* stored status of downloaded is never changed to another status.
C24_TerminalStatusesStay ==
    [][\A t \in DOMAIN rd_torrents :
          (t \in DOMAIN rd_torrents' /\ rd_torrents[t].status \in {"error", "virus", "dead", "downloaded"})
             => rd_torrents'[t].status = rd_torrents[t].status]_vars

\* C28: remove_media_item called for a stored media item removes the item, its
\* torrents and their links and returns True, whether or not the provider
\* deleted the torrents.
C28_RemoveMediaItemRemovesAll ==
    [][\A m \in DOMAIN media_items :
          (removal'.n = removal.n + 1 /\ removal'.m = m) =>
             /\ removal'.ret = TRUE
             /\ m \notin DOMAIN media_items'
             /\ \A t \in TorrentsOf(m) :
                   /\ t \notin DOMAIN rd_torrents'
                   /\ \A l \in LinksOfTorrent(t) : l \notin DOMAIN rd_links']_vars

----------------------------------------------------------------------------
(* Properties of add_magnet *)

\* the call failed: no response, a status that is not 2xx, or a failure
\* envelope
CallFailed ==
    /\ am # NoCall
    /\ \/ am.resp.transport = "failed"
       \/ am.resp.status_code \notin 200..299
       \/ am.resp.envelope = "failure"

\* C26: when the HTTP call fails, the status is not 2xx or the envelope tells
\* a failure, add_magnet raises the error class of the adapter, a
\* DebridServiceError, with the message of the provider, and returns no
\* torrent.
C26_AddMagnetRaisesProviderMessage ==
    CallFailed =>
       /\ am.result.raised
       /\ am.result.type = APIError[am.adapter]
       /\ am.result.type \in DebridServiceErrors
       /\ ~am.result.id
       /\ am.resp.message # "none" => am.result.detail = am.resp.message

----------------------------------------------------------------------------
(* Properties of the schema *)

\* C27: every link refers to a stored torrent, whatever links were created,
\* refreshed, invalidated or cleaned up and whatever media items or torrents
\* were removed; a torrent that is deleted takes its links with it.
C27_ForeignKeyIntegrity ==
    /\ [](\A l \in DOMAIN links : links[l].rd_torrent_id \in DOMAIN torrents)
    /\ [][\A t \in DOMAIN torrents :
             t \notin DOMAIN torrents' =>
                \A l \in DOMAIN links : links[l].rd_torrent_id = t => l \notin DOMAIN links']_vars

\* of two torrents with a link each, one was deleted: its link is gone, the
\* other link is kept
C27_Witness ==
    /\ hist.op = "delete_torrent"
    /\ nextLinkId = 3
    /\ Cardinality(DOMAIN torrents) = 1
    /\ Cardinality(DOMAIN links) = 1

----------------------------------------------------------------------------
(* Properties of the schedule *)

\* C29: with the refresh run every 15 minutes, a threshold of 30 minutes, a
\* lifetime of 4 hours and every refresh succeeding, no valid link is ever at
\* or past its expiry, and no link is ever invalidated.
C29_ScheduledRefreshKeepsLinksAlive ==
    /\ [](\A l \in DOMAIN links : links[l].is_valid => links[l].expires_at > now)
    /\ [](\A l \in DOMAIN links : links[l].is_valid)

\* a link has outlived the four hours it was created with
C29_Witness ==
    \E l \in DOMAIN links :
       /\ now > links[l].created_at + 4 * 60
       /\ links[l].generated_at > links[l].created_at
       /\ links[l].is_valid
       /\ links[l].expires_at > now

\* the messages a pass of the poll loop stores on the media item when it
\* ends the loop for a reason of its own
OwnFailures == {"no_video_files", "no_files_or_links", "no_streaming_url"}

\* C31: the "still downloading" message is on the media item only of an
\* acquisition that used all its poll attempts without seeing the torrent
\* downloaded or failed; an acquisition that left the loop because of no
\* video files, no files or links, or a missing streaming URL keeps the
\* message of that failure, and one that left it on a terminal provider
\* status is not told that the torrent is still downloading.
C31_TimedOutOnlyWhenBudgetUsed ==
    \A a \in Acqs :
       (acq[a].pc = "done" /\ acq[a].media \in DOMAIN media_items) =>
          /\ media_items[acq[a].media].error_message = "still_downloading"
                => acq[a].outcome = "timed_out"
          /\ acq[a].outcome \in OwnFailures
                => media_items[acq[a].media].error_message = acq[a].outcome

\* the step in which monitor_pending_torrents handles a torrent stored as
\* pending, downloading or queued that the provider reports downloaded, with
\* a link that unrestricts to a download URL
MonitorFindsReady ==
    /\ checked'.n = checked.n + 1
    /\ checked'.op = "monitor"
    /\ checked'.before \in PendingStatuses
    /\ checked'.resp = "downloaded"
    /\ checked'.lks = "url"

\* C32: when monitor_pending_torrents finds a torrent stored as pending,
\* downloading or queued to be downloaded with links that unrestrict to
\* download URLs, then after the run the stored status is "downloaded", a
\* link record exists for each of the links, and the media item of the
\* torrent is available.
C32_MonitorCreatesLinksWhenReady ==
    [][MonitorFindsReady =>
          LET t == checked'.t IN
          /\ rd_torrents'[t].status = "downloaded"
          /\ \E l \in DOMAIN rd_links' \ DOMAIN rd_links :
                /\ rd_links'[l].rd_torrent_id = t
                /\ rd_links'[l].by = "monitor"
          /\ rd_torrents[t].media_item_id \in DOMAIN media_items'
                => media_items'[rd_torrents[t].media_item_id].is_available]_vars

\* C33: a media item that is available has a link record under one of its
\* torrents: no flow sets is_available without having stored a link with a
\* streaming URL.
C33_AvailableHasLink ==
    \A m \in DOMAIN media_items :
       media_items[m].is_available => \E t \in TorrentsOf(m) : LinksOfTorrent(t) # {}

TerminalStatuses == FailedStatuses \cup {"downloaded", "magnet_error"}

\* the stored status of torrent t ("none": no such row)
StoredStatus(t) == IF t \in DOMAIN rd_torrents THEN rd_torrents[t].status ELSE "none"

\* torrent t is stored with a status that is not terminal, and a monitor run
\* is still to come
AwaitsMonitor(t) ==
    StoredStatus(t) \notin TerminalStatuses \cup {"none"} /\ checked.n < MaxChecks

\* a monitor run has polled torrent t, or the torrent has become terminal
PolledOrTerminal(t) ==
    \/ checked.op = "monitor" /\ checked.t = t
    \/ StoredStatus(t) \in TerminalStatuses

\* C35: under a fair schedule of monitor_pending_torrents, a torrent stored
\* with a status that is not terminal, whichever in-progress status it is,
\* is eventually polled by a monitor run (or has become terminal meanwhile).
C35_NonTerminalEventuallyPolled ==
    \A t \in 1..2 : AwaitsMonitor(t) ~> PolledOrTerminal(t)

\* the provider calls in cs, made by a flow that had (had_id) or had not yet
\* an id from add_magnet, keep the order of the protocol: get_torrent_info
\* follows an add_magnet that returned an id, unrestrict_link follows a
\* get_torrent_info of the same pass that reported "downloaded", and nothing
\* follows an unrestrict_link that gave a URL
InProtocolOrder(cs, had_id) ==
    \A i \in 1..Len(cs) :
       /\ cs[i].call = "get_torrent_info"
             => \/ had_id
                \/ \E j \in 1..(i - 1) : cs[j] = Call("add_magnet", "id")
       /\ cs[i].call = "unrestrict_link"
             => \E j \in 1..(i - 1) : cs[j] = Call("get_torrent_info", "downloaded")
       /\ cs[i] = Call("unrestrict_link", "url") => i = Len(cs)

\* C36: in an acquisition, unrestrict_link is called only after a
\* get_torrent_info snapshot of its torrent reported "downloaded",
\* get_torrent_info only after add_magnet returned a torrent id, and after
\* an unrestrict_link that gave a URL the acquisition calls the provider no
\* more; for the webhook acquisition and for
\* RealDebridClient.process_torrent_for_content.
C36_ProtocolOrder ==
    /\ [](\A a \in Acqs : InProtocolOrder(acq[a].calls, acq[a].rd_id))
    /\ [](InProtocolOrder(cl.calls, cl.rd_id))
    /\ [][/\ \A a \in Acqs :
                acq[a].calls # <<>> /\ acq[a].calls[Len(acq[a].calls)] = Call("unrestrict_link", "url")
                   => acq'[a] = acq[a]
          /\ cl.calls # <<>> /\ cl.calls[Len(cl.calls)] = Call("unrestrict_link", "url")
                => cl' = cl]_vars
    /\ [][/\ \A a \in Acqs : acq'[a].rd_id # acq[a].rd_id
                => \E j \in 1..Len(acq'[a].calls) : acq'[a].calls[j] = Call("add_magnet", "id")
          /\ cl'.rd_id # cl.rd_id
                => \E j \in 1..Len(cl'.calls) : cl'.calls[j] = Call("add_magnet", "id")]_vars

\* the webhook acquisition has polled a torrent that was not yet downloaded,
\* then found it downloaded and unrestricted the link of its video file
C36_Witness ==
    /\ acq["a1"].outcome = "link_saved"
    /\ acq["a1"].attempts = 3
    /\ acq["a1"].calls = <<Call("get_torrent_info", "downloaded"), Call("unrestrict_link", "url")>>

\* the step in which refresh_link stores a new URL for link l
RefreshStores(l) ==
    /\ checked'.n = checked.n + 1
    /\ checked'.op = "refresh_link"
    /\ checked'.t = l
    /\ checked'.lks = "url"

\* C37: a refresh that succeeds obtains the new streaming URL from the
\* provider link of the file the record was created for, also when the
\* torrent has several files.
C37_RefreshKeepsFile ==
    [][\A l \in DOMAIN rd_links :
          (RefreshStores(l) /\ rd_links[l].link # NoLinkUrl)
             => rd_links'[l].url_of = rd_links[l].link]_vars

\* the position, in the file list the acquisition was given, of the file
\* the link record l was stored for
ChosenPosition(a, l) ==
    CHOOSE i \in 1..Len(acq[a].files) : acq[a].files[i].path = rd_links[l].file

\* C38: the link record the webhook acquisition stores describes the file
\* that was chosen: its rd_file_id is the id of that file and its URL was
\* generated from the provider link at that file's position, also when the
\* chosen file is not the first of the list.
C38_LinkDescribesSelectedFile ==
    \A a \in Acqs : \A l \in DOMAIN rd_links :
       (acq[a].outcome = "link_saved" /\ rd_links[l].rd_torrent_id = acq[a].torrent
        /\ rd_links[l].by = "webhook") =>
          /\ rd_links[l].rd_file_id = acq[a].files[ChosenPosition(a, l)].id
          /\ rd_links[l].link # NoLinkUrl => rd_links[l].url_of = ChosenPosition(a, l)

\* the candidates the ranking is over, in the order of the input list
ConsideredInOrder(ts) ==
    IF \E t \in Elems(ts) : SizeInRange(t) THEN SelectSeq(ts, SizeInRange) ELSE ts

\* the first candidate, in the order of the input list, that no considered
\* candidate ranks above
FirstOfTheBest(ts) ==
    LET c == ConsideredInOrder(ts)
        best == {i \in 1..Len(c) : \A j \in 1..Len(c) : ~RanksAbove(c[j], c[i])}
    IN c[CHOOSE i \in best : \A j \in best : i <= j]

\* C39: when several considered candidates tie on (quality rank, seeders),
\* the selector returns the one of them that comes first in the input list.
C39_TiesKeepInputOrder ==
    [][(SelectorCalled /\ candidates # <<>>) =>
          selected' = FirstOfTheBest(candidates)]_vars

\* the selector was called on a list of in-range candidates in which two
\* different ones tie for the best score, and returned the earlier of them
C39_Witness ==
    /\ selPc = "done"
    /\ \A t \in Elems(candidates) : SizeInRange(t)
    /\ \E i, j \in 1..Len(candidates) :
          /\ i < j
          /\ candidates[i] = selected
          /\ candidates[j].id # selected.id
          /\ RankOf(candidates[j]) = RankOf(selected)
          /\ SeedersOf(candidates[j]) = SeedersOf(selected)
          /\ \A k \in 1..(i - 1) : RanksAbove(selected, candidates[k])

============================================================================
